---------------------------- MODULE Spec2Model ----------------------------
(***************************************************************************)
(* A model of the connection-to-response pipeline of actix-web:            *)
(*   - the HTTP/2 connection future H2ServiceHandlerResponse               *)
(*     (actix-http/src/h2/service.rs),                                     *)
(*   - the argument-extraction and handler futures (src/handler.rs) with   *)
(*     the Json extractor (src/types/json.rs),                             *)
(*   - the file responder NamedFile::respond_to                            *)
(*     (actix-files/src/named.rs),                                         *)
(*   - the service builder HttpServiceBuilder (actix-http/src/builder.rs). *)
(* Each component has its own specification over the shared variables.     *)
(***************************************************************************)
EXTENDS Integers, Sequences, FiniteSets, TLC

VARIABLES
    \* ---- h2/service.rs ----
    handler,      \* the H2ServiceHandler: [srv, cfg]
    state,        \* state[c]: the State enum of connection future c
    ret,          \* ret[c]: what the last poll of connection future c returned
    hist,         \* hist[c]: counters of what the polls of c did
    \* ---- handler.rs, types/json.rs ----
    esvc,         \* the ExtractService: [config, service]
    creq,         \* the ServiceRequest given to the current call
    efut,         \* the ExtractResponse future of the current call
    out,          \* what the last poll of efut returned
    ph,           \* counters of what the polls of efut did
    nreq,         \* number of requests the service was called with
    prevOverflow, \* the previous request failed with Overflow on its declared length
    \* ---- actix-files/src/named.rs ----
    named,        \* the NamedFile a handler returned
    fcfg,         \* its StaticFileConfig
    freq,         \* the request it responds to
    resp,         \* the response of respond_to, None before it ran
    resp2,        \* the response to the same request sent again, None before
    \* ---- actix-http/src/builder.rs ----
    builder,      \* the HttpServiceBuilder under construction
    built,        \* the service h1 / h2 / finish produced, None before
    hfut,         \* the H2ServiceResponse future and what its last poll returned
    ready,        \* what the polls of poll_ready returned last
    bh            \* the value last given to each setter of the builder

h2vars == <<handler, state, ret, hist>>
pipevars == <<esvc, creq, efut, out, ph, nreq, prevOverflow>>
filevars == <<named, fcfg, freq, resp, resp2>>
buildvars == <<builder, built, hfut, ready, bh>>

vars == <<handler, state, ret, hist, esvc, creq, efut, out, ph, nreq, prevOverflow,
          named, fcfg, freq, resp, resp2, builder, built, hfut, ready, bh>>

None == [tag |-> "None"]
Some(v) == [tag |-> "Some", v |-> v]

(***************************************************************************)
(*                 actix-http/src/h2/service.rs                            *)
(***************************************************************************)

\* Bounds of the connection model.
NumConns == 2
MaxPolls == 3

Conns == 1..NumConns

\* KeepAlive::Timeout(5), client_timeout 5000, client_disconnect 0
DefaultKeepAlive == 5
DefaultClientTimeout == 5000
DefaultClientDisconnect == 0

\* ServiceConfig::new(KeepAlive::Timeout(5), 5000, 0) of H2Service::new
DefaultServiceConfig ==
    [keep_alive |-> DefaultKeepAlive,
     client_timeout |-> DefaultClientTimeout,
     client_disconnect |-> DefaultClientDisconnect]

\* Configurations H2Service::with_config may be given.
ServiceConfigs ==
    {DefaultServiceConfig,
     [keep_alive |-> 0, client_timeout |-> 0, client_disconnect |-> 3000]}

PeerAddrs == {None, Some("127.0.0.1:8080")}

\* What the h2 handshake future can answer to one poll.
H2Errors == {"proto", "io"}
HandshakeOutcomes ==
    {[kind |-> "Ready", conn |-> "h2conn"], [kind |-> "NotReady"]}
        \cup {[kind |-> "Err", err |-> e] : e \in H2Errors}

\* What the steady-state dispatcher can answer to one poll.
DispatchErrors == {[variant |-> "Service"], [variant |-> "Io"]}
DispatcherOutcomes ==
    {[kind |-> "Ready"], [kind |-> "NotReady"]}
        \cup {[kind |-> "Err", err |-> e] : e \in DispatchErrors}

\* impl From<h2::Error> for DispatchError
DispatchErrorFromH2(e) == [variant |-> "H2", err |-> e]

\* H2ServiceHandler::new
H2ServiceHandler_new(cfg, srv) == [cfg |-> cfg, srv |-> srv]

\* H2ServiceHandler::call: the future starts in State::Handshake with a clone
\* of the service and of the configuration.
H2ServiceHandler_call_NoService(h, peer_addr) ==
    [tag |-> "Handshake",
     srv |-> None,
     config |-> Some(h.cfg),
     peer_addr |-> peer_addr,
     handshake |-> "pending"]

H2ServiceHandler_call(h, peer_addr) ==
    [tag |-> "Handshake",
     srv |-> Some(h.srv),
     config |-> Some(h.cfg),
     peer_addr |-> peer_addr,
     handshake |-> "pending"]

\* Dispatcher::new(service, connection, config, timeout, peer_addr)
Dispatcher_new(service, connection, config, timeout, peer_addr) ==
    [service |-> service, connection |-> connection, config |-> config,
     ka_timer |-> timeout, peer_addr |-> peer_addr]

\* Option::take().unwrap(): the value, or a panic when the option is None.
Unwrap(o) == IF o.tag = "Some" THEN o.v ELSE "panic"

\* The State::Incoming arm of H2ServiceHandlerResponse::poll.
PollIncoming_DropResult(st, dres, depth) ==
    [state |-> st, ret |-> [kind |-> "NotReady"], hs |-> 0, disp |-> 1,
     trans |-> 0, depth |-> depth, panic |-> FALSE]

PollIncoming(st, dres, depth) ==
    [state |-> st, ret |-> dres, hs |-> 0, disp |-> 1, trans |-> 0,
     depth |-> depth, panic |-> FALSE]

\* The Ok(Async::Ready(conn)) arm: build the dispatcher, switch to
\* State::Incoming and poll again.
HandshakeReady_NoRepoll(st, conn, dres) ==
    LET new == [tag |-> "Incoming",
                disp |-> Dispatcher_new(Unwrap(st.srv), conn,
                                        Unwrap(st.config), None, st.peer_addr)]
    IN  [state |-> new, ret |-> [kind |-> "NotReady"], hs |-> 1, disp |-> 0,
         trans |-> 1, depth |-> 0,
         panic |-> (st.srv.tag = "None" \/ st.config.tag = "None")]

HandshakeReady(st, conn, dres) ==
    LET new == [tag |-> "Incoming",
                disp |-> Dispatcher_new(Unwrap(st.srv), conn,
                                        Unwrap(st.config), None, st.peer_addr)]
        again == PollIncoming(new, dres, 1)
    IN  [again EXCEPT !.hs = 1, !.trans = 1,
                      !.panic = (st.srv.tag = "None" \/ st.config.tag = "None")]

\* The Err(err) arm: the error is converted and returned.
HandshakeErr_Swallow(st, err) ==
    [state |-> st, ret |-> [kind |-> "NotReady"], hs |-> 1, disp |-> 0,
     trans |-> 0, depth |-> 0, panic |-> FALSE]

HandshakeErr(st, err) ==
    [state |-> st, ret |-> [kind |-> "Err", err |-> DispatchErrorFromH2(err)],
     hs |-> 1, disp |-> 0, trans |-> 0, depth |-> 0, panic |-> FALSE]

\* H2ServiceHandlerResponse::poll, given what the handshake (hres) and the
\* dispatcher (dres) answer if they are polled.
H2Poll_Reverse(st, hres, dres) ==
    IF st.tag = "Incoming"
    THEN [PollIncoming(st, dres, 0) EXCEPT
            !.state = [tag |-> "Handshake", srv |-> None, config |-> None,
                       peer_addr |-> st.disp.peer_addr,
                       handshake |-> "pending"]]
    ELSE CASE hres.kind = "Ready" -> HandshakeReady(st, hres.conn, dres)
           [] hres.kind = "NotReady" ->
                [state |-> st, ret |-> [kind |-> "NotReady"], hs |-> 1,
                 disp |-> 0, trans |-> 0, depth |-> 0, panic |-> FALSE]
           [] hres.kind = "Err" -> HandshakeErr(st, hres.err)

H2Poll(st, hres, dres) ==
    IF st.tag = "Incoming"
    THEN PollIncoming(st, dres, 0)
    ELSE CASE hres.kind = "Ready" -> HandshakeReady(st, hres.conn, dres)
           [] hres.kind = "NotReady" ->
                [state |-> st, ret |-> [kind |-> "NotReady"], hs |-> 1,
                 disp |-> 0, trans |-> 0, depth |-> 0, panic |-> FALSE]
           [] hres.kind = "Err" -> HandshakeErr(st, hres.err)

\* What the wrapped service answers to poll_ready.
ServiceReadiness ==
    {[kind |-> "Ready", v |-> "()"], [kind |-> "NotReady"]}
        \cup {[kind |-> "Err", err |-> e] : e \in {"e1", "e2"}}

\* DispatchError::Service(e)
DispatchErrorService(e) == [variant |-> "Service", err |-> e]

\* H2ServiceHandler::poll_ready: the readiness of the wrapped service, an
\* error converted to DispatchError::Service.
H2ServiceHandler_poll_ready_AlwaysReady(h, sres) ==
    IF sres.kind = "Err"
    THEN [kind |-> "Err", err |-> DispatchErrorService(sres.err)]
    ELSE [kind |-> "Ready", v |-> "()"]

H2ServiceHandler_poll_ready(h, sres) ==
    IF sres.kind = "Err"
    THEN [kind |-> "Err", err |-> DispatchErrorService(sres.err)]
    ELSE sres

(***************************************************************************)
(*                 actix-http/src/builder.rs                               *)
(***************************************************************************)

\* Bound on the number of setter calls made on one builder.
MaxBuilderCalls == 3

\* ServiceConfig::new(keep_alive, client_timeout, client_disconnect)
ServiceConfig_new(keep_alive, client_timeout, client_disconnect) ==
    [keep_alive |-> keep_alive,
     client_timeout |-> client_timeout,
     client_disconnect |-> client_disconnect]

\* HttpServiceBuilder::new; KeepAlive::Timeout(secs) is the number of seconds.
HttpServiceBuilder_new ==
    [keep_alive |-> DefaultKeepAlive,
     client_timeout |-> DefaultClientTimeout,
     client_disconnect |-> DefaultClientDisconnect,
     expect |-> "ExpectHandler",
     upgrade |-> None]

\* HttpServiceBuilder::keep_alive / client_timeout / client_disconnect
HttpServiceBuilder_keep_alive(b, val) == [b EXCEPT !.keep_alive = val]
HttpServiceBuilder_client_timeout(b, val) == [b EXCEPT !.client_timeout = val]
HttpServiceBuilder_client_disconnect(b, val) ==
    [b EXCEPT !.client_disconnect = val]

\* HttpServiceBuilder::expect / upgrade: a new builder with the fields of
\* the old one and the given service.
HttpServiceBuilder_expect_FromNew(b, expect) ==
    [keep_alive |-> HttpServiceBuilder_new.keep_alive,
     client_timeout |-> HttpServiceBuilder_new.client_timeout,
     client_disconnect |-> HttpServiceBuilder_new.client_disconnect,
     expect |-> expect,
     upgrade |-> b.upgrade]

HttpServiceBuilder_expect(b, expect) ==
    [keep_alive |-> b.keep_alive,
     client_timeout |-> b.client_timeout,
     client_disconnect |-> b.client_disconnect,
     expect |-> expect,
     upgrade |-> b.upgrade]

HttpServiceBuilder_upgrade(b, upgrade) ==
    [keep_alive |-> b.keep_alive,
     client_timeout |-> b.client_timeout,
     client_disconnect |-> b.client_disconnect,
     expect |-> b.expect,
     upgrade |-> Some(upgrade)]

\* HttpServiceBuilder::h1 / h2 / finish: the service made with_config of the
\* builder's three values, and with its expect and upgrade services where
\* the service has them.
HttpServiceBuilder_h1(b, service) ==
    LET cfg == ServiceConfig_new(b.keep_alive, b.client_timeout,
                                 b.client_disconnect)
    IN  [kind |-> "H1Service", cfg |-> cfg, srv |-> service,
         expect |-> b.expect, upgrade |-> b.upgrade]
HttpServiceBuilder_h2(b, service) ==
    LET cfg == ServiceConfig_new(b.keep_alive, b.client_timeout,
                                 b.client_disconnect)
    IN  [kind |-> "H2Service", cfg |-> cfg, srv |-> service]
HttpServiceBuilder_finish(b, service) ==
    LET cfg == ServiceConfig_new(b.keep_alive, b.client_timeout,
                                 b.client_disconnect)
    IN  [kind |-> "HttpService", cfg |-> cfg, srv |-> service,
         expect |-> b.expect, upgrade |-> b.upgrade]

\* H2Service::new_service: the future of the handler. It holds the future
\* in which the factory of the application (h2s.srv) creates its service,
\* and a clone of the configuration.
H2Service_new_service(h2s) ==
    [fut |-> [new_service_of |-> h2s.srv], cfg |-> Some(h2s.cfg)]

(***************************************************************************)
(*            src/types/json.rs: the Json extractor                        *)
(***************************************************************************)

\* Bounds of the request model.
MaxChunks == 2
MaxReqs == 2

\* JsonBody's own limit and the limit of a Json extractor with no JsonConfig.
JsonBodyDefaultLimit == 262144
JsonDefaultLimit == 32768

\* Sizes of the body chunks a payload stream yields.
ChunkSizes == {1, 2}

\* Payload::None, and a payload stream: the chunks still unread, how the
\* stream ends after them, and whether the whole body is valid JSON of the
\* target type.
PayloadNone == [tag |-> "None"]
PayloadStream(chunks, end, valid) ==
    [tag |-> "Stream", chunks |-> chunks, end |-> end, valid |-> valid]

ChunkSeqs == UNION {[1..n -> ChunkSizes] : n \in 0..MaxChunks}
Payloads ==
    {PayloadStream(cs, "eof", v) : cs \in ChunkSeqs, v \in BOOLEAN}
        \cup {PayloadStream(cs, "err", FALSE) : cs \in ChunkSeqs}

\* Content-Type header values, and the mime each parses to.
ContentTypes ==
    {None, Some("application/json"), Some("application/hal+json"),
     Some("text/plain"), Some("garbage")}

\* HttpMessage::mime_type: Ok(None) without the header, Err when it does not
\* parse, Ok(Some(mime)) otherwise.
mime_type(req) ==
    CASE req.content_type = None -> [tag |-> "Ok", v |-> None]
      [] req.content_type = Some("application/json") ->
            [tag |-> "Ok", v |-> Some([subtype |-> "json", suffix |-> None])]
      [] req.content_type = Some("application/hal+json") ->
            [tag |-> "Ok", v |-> Some([subtype |-> "hal", suffix |-> Some("json")])]
      [] req.content_type = Some("text/plain") ->
            [tag |-> "Ok", v |-> Some([subtype |-> "plain", suffix |-> None])]
      [] OTHER -> [tag |-> "Err"]

\* Content-Length header values, as the characters of their text: absent,
\* "3", "16", "+16", "-3" and a number above usize::MAX.
ContentLengths ==
    {None, Some(<<"3">>), Some(<<"1", "6">>), Some(<<"+", "1", "6">>),
     Some(<<"-", "3">>), Some([i \in 1..23 |-> "9"])}

\* l.to_str() followed by s.parse::<usize>() (usize of 64 bits): one
\* optional '+', then at least one character, all of them decimal digits,
\* whose value is at most usize::MAX = 18446744073709551615; None for every
\* other text. (The value is computed for numbers below 10^9.)
ParseUsize(s) ==
    LET Chars == <<"0", "1", "2", "3", "4", "5", "6", "7", "8", "9">>
        Max == <<1, 8, 4, 4, 6, 7, 4, 4, 0, 7, 3, 7, 0, 9, 5, 5, 1, 6, 1, 5>>
        IsDigit(c) == \E d \in 1..10 : Chars[d] = c
        Val(c) == (CHOOSE d \in 1..10 : Chars[d] = c) - 1
        digits == IF s # <<>> /\ s[1] = "+" THEN Tail(s) ELSE s
        zeros == Cardinality({k \in 1..Len(digits) :
                                \A i \in 1..k : digits[i] = "0"})
        sig == SubSeq(digits, zeros + 1, Len(digits))
        overflow ==
            \/ Len(sig) > Len(Max)
            \/ /\ Len(sig) = Len(Max)
               /\ \E i \in 1..Len(Max) :
                     /\ Val(sig[i]) > Max[i]
                     /\ \A j \in 1..(i - 1) : Val(sig[j]) = Max[j]
        RECURSIVE Value(_)
        Value(ds) ==
            IF ds = <<>> THEN 0
            ELSE 10 * Value(SubSeq(ds, 1, Len(ds) - 1)) + Val(ds[Len(ds)])
    IN  IF digits = <<>> \/ \E i \in 1..Len(digits) : ~IsDigit(digits[i])
        THEN None
        ELSE IF overflow THEN None
        ELSE Some(Value(sig))

\* The JsonConfig a route may carry: limit and optional error handler.
JsonConfigs ==
    {None,
     Some([limit |-> 3, ehandler |-> None]),
     Some([limit |-> 10, ehandler |-> Some("custom")]),
     Some([limit |-> JsonDefaultLimit, ehandler |-> None])}

\* JsonBody::new: the content-type check, the declared length, and the
\* payload taken out of the request's payload handle.
JsonBody_new_LeavePayload(req, payload) ==
    LET mt == mime_type(req)
        json == IF mt.tag = "Ok" /\ mt.v # None
                THEN mt.v.v.subtype = "json" \/ mt.v.v.suffix = Some("json")
                ELSE FALSE
    IN  IF ~json
        THEN [body |-> [limit |-> JsonBodyDefaultLimit, length |-> None,
                        stream |-> None, fut |-> None,
                        err |-> Some("ContentType")],
              payload |-> payload]
        ELSE [body |-> [limit |-> JsonBodyDefaultLimit,
                        length |-> IF req.content_length = None THEN None
                                   ELSE ParseUsize(req.content_length.v),
                        stream |-> Some(payload), fut |-> None, err |-> None],
              payload |-> payload]

JsonBody_new_AllowNoContentType(req, payload) ==
    LET mt == mime_type(req)
        json == IF mt.tag = "Ok" /\ mt.v # None
                THEN mt.v.v.subtype = "json" \/ mt.v.v.suffix = Some("json")
                ELSE mt.tag = "Ok"
    IN  IF ~json
        THEN [body |-> [limit |-> JsonBodyDefaultLimit, length |-> None,
                        stream |-> None, fut |-> None,
                        err |-> Some("ContentType")],
              payload |-> payload]
        ELSE [body |-> [limit |-> JsonBodyDefaultLimit,
                        length |-> IF req.content_length = None THEN None
                                   ELSE ParseUsize(req.content_length.v),
                        stream |-> Some(payload), fut |-> None, err |-> None],
              payload |-> PayloadNone]

JsonBody_new(req, payload) ==
    LET mt == mime_type(req)
        json == IF mt.tag = "Ok" /\ mt.v # None
                THEN mt.v.v.subtype = "json" \/ mt.v.v.suffix = Some("json")
                ELSE FALSE
    IN  IF ~json
        THEN [body |-> [limit |-> JsonBodyDefaultLimit, length |-> None,
                        stream |-> None, fut |-> None,
                        err |-> Some("ContentType")],
              payload |-> payload]
        ELSE [body |-> [limit |-> JsonBodyDefaultLimit,
                        length |-> IF req.content_length = None THEN None
                                   ELSE ParseUsize(req.content_length.v),
                        stream |-> Some(payload), fut |-> None, err |-> None],
              payload |-> PayloadNone]

\* JsonBody::limit
JsonBody_limit(jb, limit) == [jb EXCEPT !.limit = limit]

NotReady == [kind |-> "NotReady"]
Ready(v) == [kind |-> "Ready", v |-> v]
Err(e) == [kind |-> "Err", err |-> e]

\* The fold over the payload stream of JsonBody::poll, followed by the parse:
\* k is the number of stream events (chunks, then the end) that are available
\* to this poll.
RECURSIVE Fold_AtLimit(_, _, _, _, _)
Fold_AtLimit(body, stream, k, limit, read) ==
    IF stream.tag = "None"
    THEN [fut |-> [body |-> body, stream |-> stream],
          res |-> Err("Deserialize"), read |-> read]
    ELSE IF k = 0
    THEN [fut |-> [body |-> body, stream |-> stream], res |-> NotReady,
          read |-> read]
    ELSE IF stream.chunks = <<>>
    THEN [fut |-> [body |-> body, stream |-> stream],
          res |-> IF stream.end = "err" THEN Err("Payload")
                  ELSE IF stream.valid THEN Ready([json |-> body])
                  ELSE Err("Deserialize"),
          read |-> read]
    ELSE IF body + Head(stream.chunks) >= limit
    THEN [fut |-> [body |-> body,
                   stream |-> [stream EXCEPT !.chunks = Tail(stream.chunks)]],
          res |-> Err("Overflow"), read |-> read + 1]
    ELSE Fold_AtLimit(body + Head(stream.chunks),
              [stream EXCEPT !.chunks = Tail(stream.chunks)],
              k - 1, limit, read + 1)

RECURSIVE Fold(_, _, _, _, _)
Fold(body, stream, k, limit, read) ==
    IF stream.tag = "None"
    THEN [fut |-> [body |-> body, stream |-> stream],
          res |-> Err("Deserialize"), read |-> read]
    ELSE IF k = 0
    THEN [fut |-> [body |-> body, stream |-> stream], res |-> NotReady,
          read |-> read]
    ELSE IF stream.chunks = <<>>
    THEN [fut |-> [body |-> body, stream |-> stream],
          res |-> IF stream.end = "err" THEN Err("Payload")
                  ELSE IF stream.valid THEN Ready([json |-> body])
                  ELSE Err("Deserialize"),
          read |-> read]
    ELSE IF body + Head(stream.chunks) > limit
    THEN [fut |-> [body |-> body,
                   stream |-> [stream EXCEPT !.chunks = Tail(stream.chunks)]],
          res |-> Err("Overflow"), read |-> read + 1]
    ELSE Fold(body + Head(stream.chunks),
              [stream EXCEPT !.chunks = Tail(stream.chunks)],
              k - 1, limit, read + 1)

\* JsonBody::poll
JsonBody_poll_NoLengthCheck(jb, k) ==
    IF jb.fut # None
    THEN LET f == Fold(jb.fut.v.body, jb.fut.v.stream, k, jb.fut.v.limit, 0)
         IN  [jb |-> [jb EXCEPT !.fut = Some([body |-> f.fut.body,
                                              stream |-> f.fut.stream,
                                              limit |-> jb.fut.v.limit])],
              res |-> f.res, read |-> f.read]
    ELSE IF jb.err # None
    THEN [jb |-> [jb EXCEPT !.err = None], res |-> Err(jb.err.v), read |-> 0]
    ELSE LET f == Fold(0, jb.stream.v, k, jb.limit, 0)
         IN  [jb |-> [jb EXCEPT !.length = None, !.stream = None,
                                !.fut = Some([body |-> f.fut.body,
                                              stream |-> f.fut.stream,
                                              limit |-> jb.limit])],
              res |-> f.res, read |-> f.read]

JsonBody_poll(jb, k) ==
    IF jb.fut # None
    THEN LET f == Fold(jb.fut.v.body, jb.fut.v.stream, k, jb.fut.v.limit, 0)
         IN  [jb |-> [jb EXCEPT !.fut = Some([body |-> f.fut.body,
                                              stream |-> f.fut.stream,
                                              limit |-> jb.fut.v.limit])],
              res |-> f.res, read |-> f.read]
    ELSE IF jb.err # None
    THEN [jb |-> [jb EXCEPT !.err = None], res |-> Err(jb.err.v), read |-> 0]
    ELSE IF jb.length # None /\ jb.length.v > jb.limit
    THEN [jb |-> [jb EXCEPT !.length = None], res |-> Err("Overflow"), read |-> 0]
    ELSE LET f == Fold(0, jb.stream.v, k, jb.limit, 0)
         IN  [jb |-> [jb EXCEPT !.length = None, !.stream = None,
                                !.fut = Some([body |-> f.fut.body,
                                              stream |-> f.fut.stream,
                                              limit |-> jb.limit])],
              res |-> f.res, read |-> f.read]

\* impl From<JsonPayloadError> for Error, and the error a custom handler of
\* the JsonConfig returns for (payload error, request).
ErrorFromJsonPayload(e) == [from |-> "JsonPayloadError", cause |-> e]
ErrorFromHandler(h, e, req) ==
    [from |-> h, cause |-> e, req |-> req.id]

\* HttpRequest::route_data::<JsonConfig>()
route_data(req) == req.route_data

\* <Json<T> as FromRequest>::from_request
Json_from_request(req, payload) ==
    LET cfg == route_data(req)
        limit == IF cfg = None THEN JsonDefaultLimit ELSE cfg.v.limit
        err == IF cfg = None THEN None ELSE cfg.v.ehandler
        nb == JsonBody_new(req, payload)
    IN  [fut |-> [jb |-> JsonBody_limit(nb.body, limit), err |-> err, req2 |-> req],
         payload |-> nb.payload]

\* One poll of the future Json::from_request returns.
Json_poll_DefaultConversion(fut, k) ==
    LET r == JsonBody_poll(fut.jb, k)
    IN  [fut |-> [fut EXCEPT !.jb = r.jb],
         res |-> CASE r.res.kind = "Err" -> Err(ErrorFromJsonPayload(r.res.err))
                   [] r.res.kind = "Ready" -> Ready([Json |-> r.res.v])
                   [] OTHER -> NotReady,
         read |-> r.read]

Json_poll(fut, k) ==
    LET r == JsonBody_poll(fut.jb, k)
    IN  [fut |-> [fut EXCEPT !.jb = r.jb],
         res |-> CASE r.res.kind = "Err" ->
                        IF fut.err # None
                        THEN Err(ErrorFromHandler(fut.err.v, r.res.err, fut.req2))
                        ELSE Err(ErrorFromJsonPayload(r.res.err))
                   [] r.res.kind = "Ready" -> Ready([Json |-> r.res.v])
                   [] OTHER -> NotReady,
         read |-> r.read]

(***************************************************************************)
(*            src/data.rs: the Data and RouteData extractors               *)
(***************************************************************************)

INTERNAL_SERVER_ERROR == 500

\* The types values are registered and asked under, and the Extensions
\* containers over them: a map from the types registered to their values.
DataTypes == {"usize", "u32"}
AllExtensions == UNION {[S -> {10}] : S \in SUBSET DataTypes}

\* Extensions::get::<T>()
Extensions_get(ext, T) == IF T \in DOMAIN ext THEN Some(ext[T]) ELSE None

\* req.app_config().extensions()
app_config_extensions(req) == req.app_data

\* HttpRequest::route_data::<T>()
route_data_typed(req, T) ==
    IF req.route_data = None THEN None ELSE Extensions_get(req.route_data.v, T)

\* ErrorInternalServerError(msg)
ErrorInternalServerError(msg) ==
    [from |-> "InternalError", status |-> INTERNAL_SERVER_ERROR, cause |-> msg]

\* <Data<T> as FromRequest>::from_request
Data_from_request(T, req) ==
    LET st == Extensions_get(app_config_extensions(req), T)
    IN  IF st # None
        THEN [tag |-> "Ok", v |-> [Data |-> st.v, type |-> T]]
        ELSE [tag |-> "Err",
              err |-> ErrorInternalServerError(
                  "App data is not configured, to configure use App::data()")]

\* <RouteData<T> as FromRequest>::from_request
RouteData_from_request_AnyType(T, req) ==
    IF req.route_data # None /\ DOMAIN req.route_data.v # {}
    THEN LET U == CHOOSE U \in DOMAIN req.route_data.v : TRUE
         IN  [tag |-> "Ok", v |-> [RouteData |-> req.route_data.v[U], type |-> T]]
    ELSE [tag |-> "Err",
          err |-> ErrorInternalServerError(
              "Route data is not configured, to configure use Route::data()")]

RouteData_from_request(T, req) ==
    LET st == route_data_typed(req, T)
    IN  IF st # None
        THEN [tag |-> "Ok", v |-> [RouteData |-> st.v, type |-> T]]
        ELSE [tag |-> "Err",
              err |-> ErrorInternalServerError(
                  "Route data is not configured, to configure use Route::data()")]

\* One poll of the future a Result turns into: it is ready at once.
FutureResult_poll(fut) ==
    [fut |-> fut,
     res |-> IF fut.tag = "Ok" THEN Ready(fut.v) ELSE Err(fut.err),
     read |-> 0]

\* The extractor of one position of a tuple of descriptors.
Element_from_request(T, req) ==
    IF T.kind = "Data" THEN Data_from_request(T.type, req)
    ELSE RouteData_from_request(T.type, req)

\* FromRequest for a tuple of descriptors: the descriptors run one after the
\* other in declaration order; evaluated counts those that were run.
Tuple_from_request(Ts, req) ==
    [items |-> <<>>, cur |-> Element_from_request(Head(Ts), req),
     rest |-> Tail(Ts), req2 |-> req, evaluated |-> 1]

\* One poll of the tuple's future: the first failure ends it, otherwise the
\* next descriptor runs, and the tuple is ready when all have resolved.
RECURSIVE Tuple_poll_ReportLast(_)
Tuple_poll_ReportLast(fut) ==
    LET r == FutureResult_poll(fut.cur)
        items == IF r.res.kind = "Err" THEN fut.items
                 ELSE Append(fut.items, r.res.v)
    IN  IF fut.rest = <<>>
        THEN [fut |-> [fut EXCEPT !.items = items],
              res |-> IF r.res.kind = "Err" THEN Err(r.res.err)
                      ELSE IF Len(items) = fut.evaluated
                      THEN Ready([Tuple |-> items])
                      ELSE Err(ErrorInternalServerError("earlier descriptor failed")),
              read |-> 0]
        ELSE Tuple_poll_ReportLast(
                [fut EXCEPT !.items = items,
                            !.cur = Element_from_request(Head(fut.rest), fut.req2),
                            !.rest = Tail(fut.rest),
                            !.evaluated = @ + 1])

RECURSIVE Tuple_poll(_)
Tuple_poll(fut) ==
    LET r == FutureResult_poll(fut.cur)
    IN  IF r.res.kind = "Err"
        THEN [fut |-> fut, res |-> Err(r.res.err), read |-> 0]
        ELSE IF fut.rest = <<>>
        THEN [fut |-> [fut EXCEPT !.items = Append(fut.items, r.res.v)],
              res |-> Ready([Tuple |-> Append(fut.items, r.res.v)]),
              read |-> 0]
        ELSE Tuple_poll(
                [fut EXCEPT !.items = Append(fut.items, r.res.v),
                            !.cur = Element_from_request(Head(fut.rest), fut.req2),
                            !.rest = Tail(fut.rest),
                            !.evaluated = @ + 1])

\* T::from_request(&req, &mut payload).into_future() for the extractor type
\* T of the service, and one poll of that future.
FromRequest(T, req, payload) ==
    CASE T.kind = "Json" -> Json_from_request(req, payload)
      [] T.kind = "Tuple" ->
            [fut |-> Tuple_from_request(T.items, req), payload |-> payload]
      [] T.kind = "Data" ->
            [fut |-> Data_from_request(T.type, req), payload |-> payload]
      [] T.kind = "RouteData" ->
            [fut |-> RouteData_from_request(T.type, req), payload |-> payload]

FromRequest_poll(T, fut, k) ==
    CASE T.kind = "Json" -> Json_poll(fut, k)
      [] T.kind = "Tuple" -> Tuple_poll(fut)
      [] OTHER -> FutureResult_poll(fut)

(***************************************************************************)
(*            src/handler.rs: handler and extraction futures               *)
(***************************************************************************)

MaxPipePolls == 4

\* Errors a handler's future or a responder's future may fail with.
HandlerErrors == {[from |-> "handler", status |-> 400],
                  [from |-> "handler", status |-> 500]}

\* What a handler's future / a responder's future can answer to one poll.
FutureOutcomes == {[kind |-> "Ready"], NotReady} \cup {Err(e) : e \in HandlerErrors}

\* impl From<Error> for Response
ResponseFromError(e) == [status |-> e.status, error |-> Some(e), respond_req |-> None]

\* Responder::respond_to(&req): the future of a response computed against req.
respond_to(req) == [respond_req |-> req]

\* The response a responder's future resolves to.
ResponderResponse(fut) ==
    [status |-> 200, error |-> None, respond_req |-> Some(fut.respond_req.id)]

\* ServiceResponse::new
ServiceResponse_new(request, response) ==
    [request |-> request, response |-> response]

\* ServiceRequest::into_parts / from_parts
ServiceRequest_from_parts(req, payload) == [req |-> req, payload |-> payload]

\* HttpRequest::set_route_data
set_route_data(req, data) == [req EXCEPT !.route_data = data]

\* Handler::call
Handler_call_FreshReq(param, req) ==
    [kind |-> "sync", fut |-> respond_to([req EXCEPT !.id = 0]), fut2 |-> None,
     req |-> Some(req), param |-> param]

Handler_call(param, req) ==
    [kind |-> "sync", fut |-> respond_to(req), fut2 |-> None,
     req |-> Some(req), param |-> param]

\* AsyncHandler::call
AsyncHandler_call(param, req) ==
    [kind |-> "async", fut |-> "pending", fut2 |-> None,
     req |-> Some(req), param |-> param]

NoCount == [hPolls |-> 0, rPolls |-> 0, respondTo |-> 0, reqTaken |-> 0,
            hErr |-> None, panic |-> FALSE]

\* The request a panicking unwrap() never yields.
PanicReq == [id |-> 0, content_type |-> None, content_length |-> None,
             route_data |-> None]
UnwrapReq(o) == IF o = None THEN PanicReq ELSE o.v

\* The arms of a handler future's poll once the response future answered.
ResolveErr_Propagate(hf, e, cnt) ==
    [hf |-> hf, res |-> Err(e), cnt |-> [cnt EXCEPT !.hErr = Some(e)]]

ResolveErr(hf, e, cnt) ==
    [hf |-> [hf EXCEPT !.req = None],
     res |-> Ready(ServiceResponse_new(UnwrapReq(hf.req), ResponseFromError(e))),
     cnt |-> [cnt EXCEPT !.reqTaken = @ + 1, !.hErr = Some(e),
                         !.panic = @ \/ hf.req = None]]

ResolveOk(hf, response, cnt) ==
    [hf |-> [hf EXCEPT !.req = None],
     res |-> Ready(ServiceResponse_new(UnwrapReq(hf.req), response)),
     cnt |-> [cnt EXCEPT !.reqTaken = @ + 1, !.panic = @ \/ hf.req = None]]

\* HandlerServiceResponse::poll
HandlerServiceResponse_poll(hf, rres) ==
    LET cnt == [NoCount EXCEPT !.rPolls = 1]
    IN  CASE rres.kind = "Ready" -> ResolveOk(hf, ResponderResponse(hf.fut), cnt)
          [] rres.kind = "NotReady" -> [hf |-> hf, res |-> NotReady, cnt |-> cnt]
          [] rres.kind = "Err" -> ResolveErr(hf, rres.err, cnt)

\* The `if let Some(ref mut fut) = self.fut2` arm of
\* AsyncHandlerServiceResponse::poll
AsyncPollFut2(hf, rres, cnt0) ==
    LET cnt == [cnt0 EXCEPT !.rPolls = @ + 1]
    IN  CASE rres.kind = "Ready" -> ResolveOk(hf, ResponderResponse(hf.fut2.v), cnt)
          [] rres.kind = "NotReady" -> [hf |-> hf, res |-> NotReady, cnt |-> cnt]
          [] rres.kind = "Err" -> ResolveErr(hf, rres.err, cnt)

\* AsyncHandlerServiceResponse::poll
AsyncHandlerServiceResponse_poll_RepollHandler(hf, hres, rres) ==
    IF hf.fut2 # None
    THEN AsyncPollFut2(hf, rres, [NoCount EXCEPT !.hPolls = 1])
    ELSE LET cnt == [NoCount EXCEPT !.hPolls = 1]
         IN  CASE hres.kind = "Ready" ->
                    AsyncPollFut2(
                        [hf EXCEPT !.fut = "done",
                                   !.fut2 = Some(respond_to(UnwrapReq(hf.req)))],
                        rres,
                        [cnt EXCEPT !.respondTo = 1, !.panic = hf.req = None])
               [] hres.kind = "NotReady" -> [hf |-> hf, res |-> NotReady, cnt |-> cnt]
               [] hres.kind = "Err" -> ResolveErr(hf, hres.err, cnt)

AsyncHandlerServiceResponse_poll(hf, hres, rres) ==
    IF hf.fut2 # None
    THEN AsyncPollFut2(hf, rres, NoCount)
    ELSE LET cnt == [NoCount EXCEPT !.hPolls = 1]
         IN  CASE hres.kind = "Ready" ->
                    AsyncPollFut2(
                        [hf EXCEPT !.fut = "done",
                                   !.fut2 = Some(respond_to(UnwrapReq(hf.req)))],
                        rres,
                        [cnt EXCEPT !.respondTo = 1, !.panic = hf.req = None])
               [] hres.kind = "NotReady" -> [hf |-> hf, res |-> NotReady, cnt |-> cnt]
               [] hres.kind = "Err" -> ResolveErr(hf, hres.err, cnt)

\* The future of the handler service an ExtractResponse holds in fut_s.
HandlerFuture_poll(hf, hres, rres) ==
    IF hf.kind = "sync"
    THEN HandlerServiceResponse_poll(hf, rres)
    ELSE AsyncHandlerServiceResponse_poll(hf, hres, rres)

\* Handler::poll_ready, AsyncHandler::poll_ready, ExtractService::poll_ready
Handler_poll_ready == [kind |-> "Ready", v |-> "()"]
AsyncHandler_poll_ready == [kind |-> "Ready", v |-> "()"]
ExtractService_poll_ready(svc) == [kind |-> "Ready", v |-> "()"]

\* Service::poll_ready of the wrapped handler service
Service_poll_ready(hkind) ==
    IF hkind = "sync" THEN Handler_poll_ready ELSE AsyncHandler_poll_ready

\* Service::call of the wrapped handler service
Service_call(hkind, param, req) ==
    IF hkind = "sync" THEN Handler_call(param, req) ELSE AsyncHandler_call(param, req)

\* ExtractService::call
ExtractService_call(svc, sreq) ==
    LET req == set_route_data(sreq.req, svc.config)
        ex == FromRequest(svc.extract, req, sreq.payload)
    IN  [fut |-> ex.fut, fut_s |-> None, req |-> Some(<<req, ex.payload>>),
         service |-> svc.service, extract |-> svc.extract]

NoExCount == [exPolls |-> 0, svcCalls |-> 0, callReq |-> None, read |-> 0,
              exErr |-> None, exOk |-> FALSE, h |-> NoCount, hPolled |-> 0, panic |-> FALSE]

UnwrapParts(o) == IF o = None THEN <<PanicReq, PayloadNone>> ELSE o.v

\* Ok(Async::Ready(item)) of the extraction: call the handler service with
\* the item and the request, keep its future and poll again.
ExtractReady(er, item, hres, rres, cnt) ==
    LET req == UnwrapParts(er.req)[1]
        hf == Service_call(er.service, item, req)
        r == HandlerFuture_poll(hf, hres, rres)
    IN  [er |-> [er EXCEPT !.fut_s = Some(r.hf), !.req = None],
         res |-> r.res,
         cnt |-> [cnt EXCEPT !.svcCalls = 1, !.callReq = Some(req),
                     !.h = [r.cnt EXCEPT !.respondTo =
                                @ + (IF er.service = "sync" THEN 1 ELSE 0)],
                     !.hPolled = 1, !.panic = @ \/ er.req = None]]

\* Err(e) of the extraction: give the request back with the error.
ExtractErr_CallAnyway(er, e, hres, rres, cnt) ==
    [ExtractReady(er, [Json |-> [json |-> 0]], hres, rres, cnt) EXCEPT
        !.res = Err(<<e, ServiceRequest_from_parts(UnwrapParts(er.req)[1],
                                                   UnwrapParts(er.req)[2])>>),
        !.cnt.exErr = Some(e)]

ExtractErr(er, e, hres, rres, cnt) ==
    [er |-> [er EXCEPT !.req = None],
     res |-> Err(<<e, ServiceRequest_from_parts(UnwrapParts(er.req)[1],
                                                UnwrapParts(er.req)[2])>>),
     cnt |-> [cnt EXCEPT !.exErr = Some(e), !.panic = @ \/ er.req = None]]

\* ExtractResponse::poll, given the stream events available to the extractor
\* (k) and what the handler's and the responder's futures answer if polled.
ExtractResponse_poll_NoFutS(er, k, hres, rres) ==
    LET x == FromRequest_poll(er.extract, er.fut, k)
        cnt == [NoExCount EXCEPT !.exPolls = 1, !.read = x.read]
        er1 == [er EXCEPT !.fut = x.fut]
    IN  CASE x.res.kind = "NotReady" -> [er |-> er1, res |-> NotReady, cnt |-> cnt]
          [] x.res.kind = "Err" -> ExtractErr(er1, x.res.err, hres, rres, cnt)
          [] x.res.kind = "Ready" ->
                ExtractReady(er1, x.res.v, hres, rres, [cnt EXCEPT !.exOk = TRUE])

ExtractResponse_poll(er, k, hres, rres) ==
    IF er.fut_s # None
    THEN LET r == HandlerFuture_poll(er.fut_s.v, hres, rres)
         IN  [er |-> [er EXCEPT !.fut_s = Some(r.hf)], res |-> r.res,
              cnt |-> [NoExCount EXCEPT !.h = r.cnt, !.hPolled = 1]]
    ELSE LET x == FromRequest_poll(er.extract, er.fut, k)
             cnt == [NoExCount EXCEPT !.exPolls = 1, !.read = x.read]
             er1 == [er EXCEPT !.fut = x.fut]
         IN  CASE x.res.kind = "NotReady" ->
                    [er |-> er1, res |-> NotReady, cnt |-> cnt]
               [] x.res.kind = "Err" -> ExtractErr(er1, x.res.err, hres, rres, cnt)
               [] x.res.kind = "Ready" ->
                    ExtractReady(er1, x.res.v, hres, rres,
                                 [cnt EXCEPT !.exOk = TRUE])

(***************************************************************************)
(*            actix-files/src/named.rs: the file responder                 *)
(***************************************************************************)

\* Bounds of the file model: the largest file length and the largest number
\* of conditional/range headers one request carries.
MaxFileLen == 2
MaxHdrs == 2

\* StatusCode values
OK == 200
PARTIAL_CONTENT == 206
NOT_MODIFIED == 304
BAD_REQUEST == 400
METHOD_NOT_ALLOWED == 405
PRECONDITION_FAILED == 412
RANGE_NOT_SATISFIABLE == 416

\* format!("{:x}", n): the hexadecimal digits of n, most significant first.
HexDigit(d) ==
    <<"0", "1", "2", "3", "4", "5", "6", "7", "8", "9",
      "a", "b", "c", "d", "e", "f">>[d + 1]
RECURSIVE Hex(_)
Hex(n) == IF n < 16 THEN <<HexDigit(n)>> ELSE Hex(n \div 16) \o <<HexDigit(n % 16)>>

\* EntityTag::strong / EntityTag::weak
EntityTag_strong(tag) == [weak |-> FALSE, tag |-> tag]
EntityTag_weak(tag) == [weak |-> TRUE, tag |-> tag]

\* EntityTag::strong_eq and EntityTag::weak_eq
strong_eq(a, b) == ~a.weak /\ ~b.weak /\ a.tag = b.tag
weak_eq(a, b) == a.tag = b.tag

\* NamedFile::etag: "{:x}:{:x}:{:x}:{:x}" of inode, length, seconds and
\* nanoseconds of the modification time; no tag without a modification time.
NamedFile_etag_OfHandle(file) ==
    IF file.modified = None THEN None
    ELSE Some(EntityTag_strong(
            Hex(file.file) \o <<":">> \o Hex(file.len) \o <<":">>
                \o Hex(file.modified.v.secs) \o <<":">>
                \o Hex(file.modified.v.nanos)))

NamedFile_etag(file) ==
    IF file.modified = None THEN None
    ELSE Some(EntityTag_strong(
            Hex(file.ino) \o <<":">> \o Hex(file.len) \o <<":">>
                \o Hex(file.modified.v.secs) \o <<":">>
                \o Hex(file.modified.v.nanos)))

\* mtime.into(): the HttpDate of a modification time is that time, its
\* sub-second part included; nothing in last_modified rounds it.
HttpDate(mtime) == [secs |-> mtime.secs, nanos |-> mtime.nanos]

\* m <= since on two HttpDate values (m > since is its negation): the order
\* of the times, sub-second parts included.
HttpDate_le(a, b) ==
    a.secs < b.secs \/ (a.secs = b.secs /\ a.nanos <= b.nanos)

\* header::LastModified(lm) as set on the response: an HTTP date is written
\* in whole seconds.
LastModified(lm) == [secs |-> lm.secs]

\* NamedFile::last_modified
NamedFile_last_modified(file) ==
    IF file.modified = None THEN None ELSE Some(HttpDate(file.modified.v))

\* StaticFileConfig: the flags a configuration type answers with.
DefaultConfig ==
    [use_etag |-> TRUE, use_last_modifier |-> TRUE, methods |-> {"GET", "HEAD"}]
StaticFileConfigs ==
    {DefaultConfig,
     [DefaultConfig EXCEPT !.use_etag = FALSE],
     [DefaultConfig EXCEPT !.use_last_modifier = FALSE],
     [DefaultConfig EXCEPT !.methods = {"GET", "HEAD", "POST"}]}

is_method_allowed(C, method) == method \in C.methods
is_use_etag(C) == C.use_etag
is_use_last_modifier(C) == C.use_last_modifier

\* A request header as it is on the wire: absent, present with a value that
\* does not parse, or present with a parsed value.
Absent == [kind |-> "Absent"]
Invalid == [kind |-> "Invalid"]

\* HttpMessage::get_header::<H>(): the parsed value of a present, well-formed
\* header.
get_header(h) == IF h.kind \in {"Absent", "Invalid"} THEN None ELSE Some(h)

\* HeaderMap::contains_key
contains_key(h) == h.kind # "Absent"

\* The loop of any_match: some item strongly equals the file's tag.
RECURSIVE AnyStrongEq(_, _)
AnyStrongEq(items, etag) ==
    IF items = <<>> THEN FALSE
    ELSE IF strong_eq(Head(items), etag) THEN TRUE
    ELSE AnyStrongEq(Tail(items), etag)

\* The loop of none_match: some item weakly equals the file's tag.
RECURSIVE AnyWeakEq(_, _)
AnyWeakEq(items, etag) ==
    IF items = <<>> THEN FALSE
    ELSE IF weak_eq(Head(items), etag) THEN TRUE
    ELSE AnyWeakEq(Tail(items), etag)

\* any_match: true if the request has no If-Match header or one which
\* matches etag.
any_match_Weak(etag, req) ==
    LET h == get_header(req.if_match)
    IN  IF h = None \/ h = Some([kind |-> "Any"]) THEN TRUE
        ELSE IF etag # None THEN AnyWeakEq(h.v.items, etag.v)
        ELSE FALSE

any_match_NoTagPasses(etag, req) ==
    LET h == get_header(req.if_match)
    IN  IF h = None \/ h = Some([kind |-> "Any"]) THEN TRUE
        ELSE IF etag # None THEN AnyStrongEq(h.v.items, etag.v)
        ELSE TRUE

any_match(etag, req) ==
    LET h == get_header(req.if_match)
    IN  IF h = None \/ h = Some([kind |-> "Any"]) THEN TRUE
        ELSE IF etag # None THEN AnyStrongEq(h.v.items, etag.v)
        ELSE FALSE

\* none_match: true if the request has no If-None-Match header matching
\* etag.
none_match_Strong(etag, req) ==
    LET h == get_header(req.if_none_match)
    IN  IF h = None THEN TRUE
        ELSE IF h = Some([kind |-> "Any"]) THEN FALSE
        ELSE IF etag # None THEN ~AnyStrongEq(h.v.items, etag.v)
        ELSE TRUE

none_match(etag, req) ==
    LET h == get_header(req.if_none_match)
    IN  IF h = None THEN TRUE
        ELSE IF h = Some([kind |-> "Any"]) THEN FALSE
        ELSE IF etag # None THEN ~AnyWeakEq(h.v.items, etag.v)
        ELSE TRUE

\* HttpRange::parse(header, size) for a header "bytes=<specs>": each spec is
\* first-last, first- or -suffix; a spec that starts at or after size is
\* dropped, and the header is unsatisfiable when nothing is left.
RangeOfSpec(sp, size) ==
    CASE sp.kind = "suffix" ->
            LET n == IF sp.n > size THEN size ELSE sp.n
            IN  Some([start |-> size - n, length |-> n])
      [] sp.kind = "from" ->
            IF sp.a >= size THEN None
            ELSE Some([start |-> sp.a, length |-> size - sp.a])
      [] OTHER ->
            IF sp.a >= size THEN None
            ELSE LET last == IF sp.b >= size THEN size - 1 ELSE sp.b
                 IN  Some([start |-> sp.a, length |-> last - sp.a + 1])

RECURSIVE RangesOf(_, _)
RangesOf(specs, size) ==
    IF specs = <<>> THEN <<>>
    ELSE LET r == RangeOfSpec(Head(specs), size)
         IN  (IF r = None THEN <<>> ELSE <<r.v>>) \o RangesOf(Tail(specs), size)

SpecMalformed(sp) == sp.kind = "bad" \/ (sp.kind = "fromto" /\ sp.a > sp.b)

HttpRange_parse(header, size) ==
    IF ~header.bytes_unit THEN [tag |-> "Err"]
    ELSE IF \E i \in 1..Len(header.specs) : SpecMalformed(header.specs[i])
    THEN [tag |-> "Err"]
    ELSE LET rs == RangesOf(header.specs, size)
         IN  IF rs = <<>> THEN [tag |-> "Err"] ELSE [tag |-> "Ok", v |-> rs]

\* "bytes {}-{}/{}" and "bytes */{}"
ContentRange(first, last, total) ==
    [unit |-> "bytes", first |-> first, last |-> last, total |-> total]
ContentRangeUnsatisfied(total) ==
    [unit |-> "bytes", first |-> "*", last |-> "*", total |-> total]

NoHeaders ==
    [content_type |-> None, content_disposition |-> None,
     content_encoding |-> None, last_modified |-> None, etag |-> None,
     accept_ranges |-> None, content_range |-> None, content_length |-> None,
     allow |-> None]

\* The bodies a response is finished with: finish(), body(text) and
\* streaming(ChunkedReadFile { offset, size, file, .. }), which reads from
\* the File handle of the NamedFile.
EmptyBody == [kind |-> "Empty"]
TextBody(text) == [kind |-> "Bytes", text |-> text]
ChunkedReadFile(file, offset, size) ==
    [kind |-> "Stream", file |-> file, offset |-> offset, size |-> size]

\* The header set both paths of respond_to start from: Content-Type,
\* Content-Disposition and, if an encoding is set, Content-Encoding.
BaseHeaders_NoEncoding(file) ==
    [NoHeaders EXCEPT !.content_type = Some(file.content_type),
                      !.content_disposition = Some(file.content_disposition)]

BaseHeaders(file) ==
    [NoHeaders EXCEPT !.content_type = Some(file.content_type),
                      !.content_disposition = Some(file.content_disposition),
                      !.content_encoding = file.encoding]

\* The tail of respond_to, from the range check on.
RespondRange_NotModifiedFirst(file, req, headers, precondition_failed, not_modified) ==
    LET parsed == IF req.range.kind = "Text"
                  THEN HttpRange_parse(req.range, file.len)
                  ELSE [tag |-> "Absent"]
        length == IF parsed.tag = "Ok" THEN parsed.v[1].length ELSE file.len
        offset == IF parsed.tag = "Ok" THEN parsed.v[1].start ELSE 0
        h1 == IF parsed.tag = "Ok"
              THEN [headers EXCEPT !.content_range =
                        Some(ContentRange(offset, offset + length - 1, file.len))]
              ELSE headers
        h2 == [h1 EXCEPT !.content_length = Some(length)]
        trace == [precondition_failed |-> precondition_failed,
                  not_modified |-> not_modified]
    IN  IF req.range.kind = "NonAscii"
        THEN [status |-> BAD_REQUEST, headers |-> headers, body |-> EmptyBody,
              trace |-> Some(trace)]
        ELSE IF parsed.tag = "Err"
        THEN [status |-> RANGE_NOT_SATISFIABLE,
              headers |-> [headers EXCEPT !.content_range =
                              Some(ContentRangeUnsatisfied(file.len))],
              body |-> EmptyBody, trace |-> Some(trace)]
        ELSE IF not_modified
        THEN [status |-> NOT_MODIFIED, headers |-> h2, body |-> EmptyBody,
              trace |-> Some(trace)]
        ELSE IF precondition_failed
        THEN [status |-> PRECONDITION_FAILED, headers |-> h2, body |-> EmptyBody,
              trace |-> Some(trace)]
        ELSE IF req.method = "HEAD"
        THEN [status |-> file.status_code, headers |-> h2, body |-> EmptyBody,
              trace |-> Some(trace)]
        ELSE IF offset # 0 \/ length # file.len
        THEN [status |-> PARTIAL_CONTENT, headers |-> h2,
              body |-> ChunkedReadFile(file.file, offset, length), trace |-> Some(trace)]
        ELSE [status |-> file.status_code, headers |-> h2,
              body |-> ChunkedReadFile(file.file, offset, length), trace |-> Some(trace)]

RespondRange_IgnoreBadRange(file, req, headers, precondition_failed, not_modified) ==
    LET parsed == IF req.range.kind = "Text"
                     /\ HttpRange_parse(req.range, file.len).tag = "Ok"
                  THEN HttpRange_parse(req.range, file.len)
                  ELSE [tag |-> "Absent"]
        length == IF parsed.tag = "Ok" THEN parsed.v[1].length ELSE file.len
        offset == IF parsed.tag = "Ok" THEN parsed.v[1].start ELSE 0
        h1 == IF parsed.tag = "Ok"
              THEN [headers EXCEPT !.content_range =
                        Some(ContentRange(offset, offset + length - 1, file.len))]
              ELSE headers
        h2 == [h1 EXCEPT !.content_length = Some(length)]
        trace == [precondition_failed |-> precondition_failed,
                  not_modified |-> not_modified]
    IN  IF req.range.kind = "NonAscii"
        THEN [status |-> BAD_REQUEST, headers |-> headers, body |-> EmptyBody,
              trace |-> Some(trace)]
        ELSE IF parsed.tag = "Err"
        THEN [status |-> RANGE_NOT_SATISFIABLE,
              headers |-> [headers EXCEPT !.content_range =
                              Some(ContentRangeUnsatisfied(file.len))],
              body |-> EmptyBody, trace |-> Some(trace)]
        ELSE IF precondition_failed
        THEN [status |-> PRECONDITION_FAILED, headers |-> h2, body |-> EmptyBody,
              trace |-> Some(trace)]
        ELSE IF not_modified
        THEN [status |-> NOT_MODIFIED, headers |-> h2, body |-> EmptyBody,
              trace |-> Some(trace)]
        ELSE IF req.method = "HEAD"
        THEN [status |-> file.status_code, headers |-> h2, body |-> EmptyBody,
              trace |-> Some(trace)]
        ELSE IF offset # 0 \/ length # file.len
        THEN [status |-> PARTIAL_CONTENT, headers |-> h2,
              body |-> ChunkedReadFile(file.file, offset, length), trace |-> Some(trace)]
        ELSE [status |-> file.status_code, headers |-> h2,
              body |-> ChunkedReadFile(file.file, offset, length), trace |-> Some(trace)]

RespondRange_ConditionsFirst(file, req, headers, precondition_failed, not_modified) ==
    LET parsed == IF req.range.kind = "Text"
                  THEN HttpRange_parse(req.range, file.len)
                  ELSE [tag |-> "Absent"]
        length == IF parsed.tag = "Ok" THEN parsed.v[1].length ELSE file.len
        offset == IF parsed.tag = "Ok" THEN parsed.v[1].start ELSE 0
        h1 == IF parsed.tag = "Ok"
              THEN [headers EXCEPT !.content_range =
                        Some(ContentRange(offset, offset + length - 1, file.len))]
              ELSE headers
        h2 == [h1 EXCEPT !.content_length = Some(length)]
        trace == [precondition_failed |-> precondition_failed,
                  not_modified |-> not_modified]
    IN  IF precondition_failed
        THEN [status |-> PRECONDITION_FAILED, headers |-> h2, body |-> EmptyBody,
              trace |-> Some(trace)]
        ELSE IF not_modified
        THEN [status |-> NOT_MODIFIED, headers |-> h2, body |-> EmptyBody,
              trace |-> Some(trace)]
        ELSE IF req.range.kind = "NonAscii"
        THEN [status |-> BAD_REQUEST, headers |-> headers, body |-> EmptyBody,
              trace |-> Some(trace)]
        ELSE IF parsed.tag = "Err"
        THEN [status |-> RANGE_NOT_SATISFIABLE,
              headers |-> [headers EXCEPT !.content_range =
                              Some(ContentRangeUnsatisfied(file.len))],
              body |-> EmptyBody, trace |-> Some(trace)]
        ELSE IF req.method = "HEAD"
        THEN [status |-> file.status_code, headers |-> h2, body |-> EmptyBody,
              trace |-> Some(trace)]
        ELSE IF offset # 0 \/ length # file.len
        THEN [status |-> PARTIAL_CONTENT, headers |-> h2,
              body |-> ChunkedReadFile(file.file, offset, length), trace |-> Some(trace)]
        ELSE [status |-> file.status_code, headers |-> h2,
              body |-> ChunkedReadFile(file.file, offset, length), trace |-> Some(trace)]

RespondRange_RangeFirst(file, req, headers, precondition_failed, not_modified) ==
    LET parsed == IF req.range.kind = "Text"
                  THEN HttpRange_parse(req.range, file.len)
                  ELSE [tag |-> "Absent"]
        length == IF parsed.tag = "Ok" THEN parsed.v[1].length ELSE file.len
        offset == IF parsed.tag = "Ok" THEN parsed.v[1].start ELSE 0
        h1 == IF parsed.tag = "Ok"
              THEN [headers EXCEPT !.content_range =
                        Some(ContentRange(offset, offset + length - 1, file.len))]
              ELSE headers
        h2 == [h1 EXCEPT !.content_length = Some(length)]
        trace == [precondition_failed |-> precondition_failed,
                  not_modified |-> not_modified]
    IN  IF req.range.kind = "NonAscii"
        THEN [status |-> BAD_REQUEST, headers |-> headers, body |-> EmptyBody,
              trace |-> Some(trace)]
        ELSE IF parsed.tag = "Err"
        THEN [status |-> RANGE_NOT_SATISFIABLE,
              headers |-> [headers EXCEPT !.content_range =
                              Some(ContentRangeUnsatisfied(file.len))],
              body |-> EmptyBody, trace |-> Some(trace)]
        ELSE IF precondition_failed /\ parsed.tag # "Ok"
        THEN [status |-> PRECONDITION_FAILED, headers |-> h2, body |-> EmptyBody,
              trace |-> Some(trace)]
        ELSE IF not_modified
        THEN [status |-> NOT_MODIFIED, headers |-> h2, body |-> EmptyBody,
              trace |-> Some(trace)]
        ELSE IF req.method = "HEAD"
        THEN [status |-> file.status_code, headers |-> h2, body |-> EmptyBody,
              trace |-> Some(trace)]
        ELSE IF offset # 0 \/ length # file.len
        THEN [status |-> PARTIAL_CONTENT, headers |-> h2,
              body |-> ChunkedReadFile(file.file, offset, length), trace |-> Some(trace)]
        ELSE [status |-> file.status_code, headers |-> h2,
              body |-> ChunkedReadFile(file.file, offset, length), trace |-> Some(trace)]

RespondRange_EndExclusive(file, req, headers, precondition_failed, not_modified) ==
    LET parsed == IF req.range.kind = "Text"
                  THEN HttpRange_parse(req.range, file.len)
                  ELSE [tag |-> "Absent"]
        length == IF parsed.tag = "Ok" THEN parsed.v[1].length ELSE file.len
        offset == IF parsed.tag = "Ok" THEN parsed.v[1].start ELSE 0
        h1 == IF parsed.tag = "Ok"
              THEN [headers EXCEPT !.content_range =
                        Some(ContentRange(offset, offset + length, file.len))]
              ELSE headers
        h2 == [h1 EXCEPT !.content_length = Some(length)]
        trace == [precondition_failed |-> precondition_failed,
                  not_modified |-> not_modified]
    IN  IF req.range.kind = "NonAscii"
        THEN [status |-> BAD_REQUEST, headers |-> headers, body |-> EmptyBody,
              trace |-> Some(trace)]
        ELSE IF parsed.tag = "Err"
        THEN [status |-> RANGE_NOT_SATISFIABLE,
              headers |-> [headers EXCEPT !.content_range =
                              Some(ContentRangeUnsatisfied(file.len))],
              body |-> EmptyBody, trace |-> Some(trace)]
        ELSE IF precondition_failed
        THEN [status |-> PRECONDITION_FAILED, headers |-> h2, body |-> EmptyBody,
              trace |-> Some(trace)]
        ELSE IF not_modified
        THEN [status |-> NOT_MODIFIED, headers |-> h2, body |-> EmptyBody,
              trace |-> Some(trace)]
        ELSE IF req.method = "HEAD"
        THEN [status |-> file.status_code, headers |-> h2, body |-> EmptyBody,
              trace |-> Some(trace)]
        ELSE IF offset # 0 \/ length # file.len
        THEN [status |-> PARTIAL_CONTENT, headers |-> h2,
              body |-> ChunkedReadFile(file.file, offset, length), trace |-> Some(trace)]
        ELSE [status |-> file.status_code, headers |-> h2,
              body |-> ChunkedReadFile(file.file, offset, length), trace |-> Some(trace)]

RespondRange_ParseErrIs400(file, req, headers, precondition_failed, not_modified) ==
    LET parsed == IF req.range.kind = "Text"
                  THEN HttpRange_parse(req.range, file.len)
                  ELSE [tag |-> "Absent"]
        length == IF parsed.tag = "Ok" THEN parsed.v[1].length ELSE file.len
        offset == IF parsed.tag = "Ok" THEN parsed.v[1].start ELSE 0
        h1 == IF parsed.tag = "Ok"
              THEN [headers EXCEPT !.content_range =
                        Some(ContentRange(offset, offset + length - 1, file.len))]
              ELSE headers
        h2 == [h1 EXCEPT !.content_length = Some(length)]
        trace == [precondition_failed |-> precondition_failed,
                  not_modified |-> not_modified]
    IN  IF req.range.kind = "NonAscii"
        THEN [status |-> BAD_REQUEST, headers |-> headers, body |-> EmptyBody,
              trace |-> Some(trace)]
        ELSE IF parsed.tag = "Err"
        THEN [status |-> BAD_REQUEST, headers |-> headers, body |-> EmptyBody,
              trace |-> Some(trace)]
        ELSE IF precondition_failed
        THEN [status |-> PRECONDITION_FAILED, headers |-> h2, body |-> EmptyBody,
              trace |-> Some(trace)]
        ELSE IF not_modified
        THEN [status |-> NOT_MODIFIED, headers |-> h2, body |-> EmptyBody,
              trace |-> Some(trace)]
        ELSE IF req.method = "HEAD"
        THEN [status |-> file.status_code, headers |-> h2, body |-> EmptyBody,
              trace |-> Some(trace)]
        ELSE IF offset # 0 \/ length # file.len
        THEN [status |-> PARTIAL_CONTENT, headers |-> h2,
              body |-> ChunkedReadFile(file.file, offset, length), trace |-> Some(trace)]
        ELSE [status |-> file.status_code, headers |-> h2,
              body |-> ChunkedReadFile(file.file, offset, length), trace |-> Some(trace)]

RespondRange_LastRange(file, req, headers, precondition_failed, not_modified) ==
    LET parsed == IF req.range.kind = "Text"
                  THEN HttpRange_parse(req.range, file.len)
                  ELSE [tag |-> "Absent"]
        length == IF parsed.tag = "Ok" THEN parsed.v[Len(parsed.v)].length ELSE file.len
        offset == IF parsed.tag = "Ok" THEN parsed.v[Len(parsed.v)].start ELSE 0
        h1 == IF parsed.tag = "Ok"
              THEN [headers EXCEPT !.content_range =
                        Some(ContentRange(offset, offset + length - 1, file.len))]
              ELSE headers
        h2 == [h1 EXCEPT !.content_length = Some(length)]
        trace == [precondition_failed |-> precondition_failed,
                  not_modified |-> not_modified]
    IN  IF req.range.kind = "NonAscii"
        THEN [status |-> BAD_REQUEST, headers |-> headers, body |-> EmptyBody,
              trace |-> Some(trace)]
        ELSE IF parsed.tag = "Err"
        THEN [status |-> RANGE_NOT_SATISFIABLE,
              headers |-> [headers EXCEPT !.content_range =
                              Some(ContentRangeUnsatisfied(file.len))],
              body |-> EmptyBody, trace |-> Some(trace)]
        ELSE IF precondition_failed
        THEN [status |-> PRECONDITION_FAILED, headers |-> h2, body |-> EmptyBody,
              trace |-> Some(trace)]
        ELSE IF not_modified
        THEN [status |-> NOT_MODIFIED, headers |-> h2, body |-> EmptyBody,
              trace |-> Some(trace)]
        ELSE IF req.method = "HEAD"
        THEN [status |-> file.status_code, headers |-> h2, body |-> EmptyBody,
              trace |-> Some(trace)]
        ELSE IF offset # 0 \/ length # file.len
        THEN [status |-> PARTIAL_CONTENT, headers |-> h2,
              body |-> ChunkedReadFile(file.file, offset, length), trace |-> Some(trace)]
        ELSE [status |-> file.status_code, headers |-> h2,
              body |-> ChunkedReadFile(file.file, offset, length), trace |-> Some(trace)]

RespondRange(file, req, headers, precondition_failed, not_modified) ==
    LET parsed == IF req.range.kind = "Text"
                  THEN HttpRange_parse(req.range, file.len)
                  ELSE [tag |-> "Absent"]
        length == IF parsed.tag = "Ok" THEN parsed.v[1].length ELSE file.len
        offset == IF parsed.tag = "Ok" THEN parsed.v[1].start ELSE 0
        h1 == IF parsed.tag = "Ok"
              THEN [headers EXCEPT !.content_range =
                        Some(ContentRange(offset, offset + length - 1, file.len))]
              ELSE headers
        h2 == [h1 EXCEPT !.content_length = Some(length)]
        trace == [precondition_failed |-> precondition_failed,
                  not_modified |-> not_modified]
    IN  IF req.range.kind = "NonAscii"
        THEN [status |-> BAD_REQUEST, headers |-> headers, body |-> EmptyBody,
              trace |-> Some(trace)]
        ELSE IF parsed.tag = "Err"
        THEN [status |-> RANGE_NOT_SATISFIABLE,
              headers |-> [headers EXCEPT !.content_range =
                              Some(ContentRangeUnsatisfied(file.len))],
              body |-> EmptyBody, trace |-> Some(trace)]
        ELSE IF precondition_failed
        THEN [status |-> PRECONDITION_FAILED, headers |-> h2, body |-> EmptyBody,
              trace |-> Some(trace)]
        ELSE IF not_modified
        THEN [status |-> NOT_MODIFIED, headers |-> h2, body |-> EmptyBody,
              trace |-> Some(trace)]
        ELSE IF req.method = "HEAD"
        THEN [status |-> file.status_code, headers |-> h2, body |-> EmptyBody,
              trace |-> Some(trace)]
        ELSE IF offset # 0 \/ length # file.len
        THEN [status |-> PARTIAL_CONTENT, headers |-> h2,
              body |-> ChunkedReadFile(file.file, offset, length), trace |-> Some(trace)]
        ELSE [status |-> file.status_code, headers |-> h2,
              body |-> ChunkedReadFile(file.file, offset, length), trace |-> Some(trace)]

\* The not-modified decision of respond_to.
NotModified_AlwaysSince(etag, last_modified, req) ==
    IF ~none_match(etag, req) THEN TRUE
    ELSE IF last_modified # None /\ get_header(req.if_modified_since) # None
    THEN HttpDate_le(last_modified.v, req.if_modified_since)
    ELSE FALSE

NotModified(etag, last_modified, req) ==
    IF ~none_match(etag, req) THEN TRUE
    ELSE IF contains_key(req.if_none_match) THEN FALSE
    ELSE IF last_modified # None /\ get_header(req.if_modified_since) # None
    THEN HttpDate_le(last_modified.v, req.if_modified_since)
    ELSE FALSE

\* The precondition check of respond_to.
PreconditionFailed(etag, last_modified, req) ==
    IF ~any_match(etag, req) THEN TRUE
    ELSE IF last_modified # None /\ get_header(req.if_unmodified_since) # None
    THEN ~HttpDate_le(last_modified.v, req.if_unmodified_since)
    ELSE FALSE

\* <NamedFile<C> as Responder>::respond_to
NamedFile_respond_to_MethodFirst(file, C, req) ==
    IF ~is_method_allowed(C, req.method)
    THEN [status |-> METHOD_NOT_ALLOWED,
          headers |-> [NoHeaders EXCEPT !.content_type = Some("text/plain"),
                                        !.allow = Some("GET, HEAD")],
          body |-> TextBody("This resource only supports GET and HEAD."),
          trace |-> None]
    ELSE IF file.status_code # OK
    THEN [status |-> file.status_code, headers |-> BaseHeaders(file),
          body |-> ChunkedReadFile(file.file, 0, file.len), trace |-> None]
    ELSE LET etag == IF is_use_etag(C) THEN NamedFile_etag(file) ELSE None
             last_modified == IF is_use_last_modifier(C)
                              THEN NamedFile_last_modified(file) ELSE None
             headers == [BaseHeaders(file) EXCEPT
                            !.last_modified = IF last_modified = None THEN None
                                             ELSE Some(LastModified(last_modified.v)),
                            !.etag = etag,
                            !.accept_ranges = Some("bytes")]
         IN  RespondRange(file, req, headers,
                          PreconditionFailed(etag, last_modified, req),
                          NotModified(etag, last_modified, req))

NamedFile_respond_to_NoETag(file, C, req) ==
    IF file.status_code # OK
    THEN [status |-> file.status_code, headers |-> BaseHeaders(file),
          body |-> ChunkedReadFile(file.file, 0, file.len), trace |-> None]
    ELSE IF ~is_method_allowed(C, req.method)
    THEN [status |-> METHOD_NOT_ALLOWED,
          headers |-> [NoHeaders EXCEPT !.content_type = Some("text/plain"),
                                        !.allow = Some("GET, HEAD")],
          body |-> TextBody("This resource only supports GET and HEAD."),
          trace |-> None]
    ELSE LET etag == IF is_use_etag(C) THEN NamedFile_etag(file) ELSE None
             last_modified == IF is_use_last_modifier(C)
                              THEN NamedFile_last_modified(file) ELSE None
             headers == [BaseHeaders(file) EXCEPT
                            !.last_modified = IF last_modified = None THEN None
                                             ELSE Some(LastModified(last_modified.v)),
                            !.accept_ranges = Some("bytes")]
         IN  RespondRange(file, req, headers,
                          PreconditionFailed(etag, last_modified, req),
                          NotModified(etag, last_modified, req))

NamedFile_respond_to_MethodLast(file, C, req) ==
    IF file.status_code # OK
    THEN [status |-> file.status_code, headers |-> BaseHeaders(file),
          body |-> ChunkedReadFile(file.file, 0, file.len), trace |-> None]
    ELSE LET etag == IF is_use_etag(C) THEN NamedFile_etag(file) ELSE None
             last_modified == IF is_use_last_modifier(C)
                              THEN NamedFile_last_modified(file) ELSE None
             headers == [BaseHeaders(file) EXCEPT
                            !.last_modified = IF last_modified = None THEN None
                                             ELSE Some(LastModified(last_modified.v)),
                            !.etag = etag,
                            !.accept_ranges = Some("bytes")]
             r == RespondRange(file, req, headers,
                               PreconditionFailed(etag, last_modified, req),
                               NotModified(etag, last_modified, req))
         IN  IF r.status \in {BAD_REQUEST, RANGE_NOT_SATISFIABLE,
                              PRECONDITION_FAILED, NOT_MODIFIED}
             THEN r
             ELSE IF ~is_method_allowed(C, req.method)
             THEN [status |-> METHOD_NOT_ALLOWED,
                   headers |-> [NoHeaders EXCEPT
                                    !.content_type = Some("text/plain"),
                                    !.allow = Some("GET, HEAD")],
                   body |-> TextBody("This resource only supports GET and HEAD."),
                   trace |-> None]
             ELSE r

NamedFile_respond_to(file, C, req) ==
    IF file.status_code # OK
    THEN [status |-> file.status_code, headers |-> BaseHeaders(file),
          body |-> ChunkedReadFile(file.file, 0, file.len), trace |-> None]
    ELSE IF ~is_method_allowed(C, req.method)
    THEN [status |-> METHOD_NOT_ALLOWED,
          headers |-> [NoHeaders EXCEPT !.content_type = Some("text/plain"),
                                        !.allow = Some("GET, HEAD")],
          body |-> TextBody("This resource only supports GET and HEAD."),
          trace |-> None]
    ELSE LET etag == IF is_use_etag(C) THEN NamedFile_etag(file) ELSE None
             last_modified == IF is_use_last_modifier(C)
                              THEN NamedFile_last_modified(file) ELSE None
             headers == [BaseHeaders(file) EXCEPT
                            !.last_modified = IF last_modified = None THEN None
                                             ELSE Some(LastModified(last_modified.v)),
                            !.etag = etag,
                            !.accept_ranges = Some("bytes")]
         IN  RespondRange(file, req, headers,
                          PreconditionFailed(etag, last_modified, req),
                          NotModified(etag, last_modified, req))

NotCreated == [tag |-> "NotCreated"]
NotPolled == [kind |-> "NotPolled"]
NoHist == [polls |-> 0, hsPolls |-> 0, dispPolls |-> 0, trans |-> 0,
           back |-> 0, depth |-> 0, hsErr |-> None, hsAfterFail |-> 0,
           panic |-> FALSE]

\* A future that returned Ready or Err is complete and is not polled again.
Resolved(c) == ret[c].kind \in {"Ready", "Err"}

\* ExtractService as Extract::new_service builds it: the route's
\* configuration and a clone of the handler service.
ExtractServices ==
    {[extract |-> [kind |-> "Json"], config |-> cfg, service |-> hk] :
        cfg \in JsonConfigs, hk \in {"sync", "async"}}

NoPh == [polls |-> 0, exPolls |-> 0, exPollsAfterCall |-> 0, svcCalls |-> 0,
         callReq |-> None, read |-> 0, exErr |-> None, exOk |-> FALSE,
         hPolls |-> 0,
         rPolls |-> 0, respondTo |-> 0, reqTaken |-> 0, hPollsAfterFut2 |-> 0,
         hErr |-> None, panic |-> FALSE]

\* H2ServiceResponse::poll; fres is what the poll of the factory's future
\* answers. NotReady and an error are passed on (try_ready!); with the
\* service created, the handler is made of the configuration taken out of
\* the future and of that service. A poll that finds the configuration
\* taken panics (cfg.take().unwrap()).
H2ServiceResponse_poll(r, fres) ==
    IF fres.kind = "NotReady" THEN [fut |-> r, res |-> NotReady]
    ELSE IF fres.kind = "Err" THEN [fut |-> r, res |-> Err(fres.err)]
    ELSE IF r.cfg = None THEN [fut |-> r, res |-> [kind |-> "Panic"]]
    ELSE [fut |-> [r EXCEPT !.cfg = None],
          res |-> Ready(H2ServiceHandler_new(r.cfg.v, fres.v))]

PipelineServices == {"Handler", "AsyncHandler", "ExtractService"}

\* A new builder; no poll_ready was made yet.
BuildIdle ==
    /\ builder = HttpServiceBuilder_new
    /\ built = None
    /\ hfut = NotCreated
    /\ ready = [h2 |-> NotPolled, pipe |-> [s \in PipelineServices |-> NotPolled]]
    /\ bh = <<>>

PipeIdle ==
    /\ creq = None
    /\ efut = NotCreated
    /\ out = NotPolled
    /\ ph = NoPh
    /\ nreq = 0
    /\ prevOverflow = FALSE

H2Idle ==
    /\ handler = H2ServiceHandler_new(DefaultServiceConfig, "svc")
    /\ state = [c \in Conns |-> NotCreated]
    /\ ret = [c \in Conns |-> NotPolled]
    /\ hist = [c \in Conns |-> NoHist]

\* NamedFile::from_file_with_config on a File handle opened anew on the
\* same, unchanged file f.txt (the path has a file name): fd is the
\* descriptor the system gave the handle (that of the earlier handle when
\* it was closed and reused, else another one), md is the answer of
\* file.metadata(). An error of metadata() is returned; otherwise the
\* NamedFile holds the new handle, the metadata read again (inode,
\* length, modification time), the content type guessed from the path and
\* the disposition made of it and of the file name, status code 200 and no
\* encoding.
Reopen(f, fd, md) ==
    IF md = "Err" THEN Err("io::Error")
    ELSE Ready([f EXCEPT !.file = fd, !.status_code = OK,
                         !.encoding = None,
                         !.content_type = "text/plain",
                         !.content_disposition = "inline; filename=\"f.txt\""])

\* NamedFile::set_status_code, NamedFile::set_content_type,
\* NamedFile::set_content_disposition and NamedFile::set_content_encoding
NamedFile_set_status_code(file, status) == [file EXCEPT !.status_code = status]
NamedFile_set_content_type(file, mime) ==
    [file EXCEPT !.content_type = mime]
NamedFile_set_content_disposition(file, cd) ==
    [file EXCEPT !.content_disposition = cd]
NamedFile_set_content_encoding(file, enc) == [file EXCEPT !.encoding = Some(enc)]

\* The files of the model: the file f.txt as from_file_with_config opens it,
\* with its length (one byte, or the longest) and modification time (none, or seconds and nanoseconds
\* since the epoch), after the handler used the setters: not at all, for an
\* encoding together with a content type and a disposition, for the status
\* code 404 with a content type and a disposition, or for the status code
\* 304 and an encoding.
MTimes == {None} \cup {Some([secs |-> m[1], nanos |-> m[2]]) :
                          m \in {<<1, 0>>, <<1, 5>>, <<2, 0>>}}
NamedFile(len, modified, status_code, encoding) ==
    [file |-> 3, ino |-> 26, len |-> len, modified |-> modified,
     status_code |-> status_code, encoding |-> encoding,
     content_type |-> "text/plain",
     content_disposition |-> "inline; filename=\"f.txt\""]
NamedFiles ==
    {IF set[3]
     THEN NamedFile_set_content_disposition(
              NamedFile_set_content_type(NamedFile(len, m, set[1], set[2]),
                                         "application/json"),
              "attachment; filename=\"x.json\"")
     ELSE NamedFile(len, m, set[1], set[2]) :
        len \in {1, MaxFileLen}, m \in MTimes,
        set \in {<<OK, None, FALSE>>, <<OK, Some("gzip"), TRUE>>,
                 <<404, None, TRUE>>, <<NOT_MODIFIED, Some("gzip"), FALSE>>}}

\* Entity tags a request names: the tag of the one-byte file modified at
\* 1.000000000 s, strong and weak, and the tag of the same file modified
\* five nanoseconds later.
Tag1 == NamedFile_etag(NamedFile(1, Some([secs |-> 1, nanos |-> 0]), OK, None)).v
Tag2 == NamedFile_etag(NamedFile(1, Some([secs |-> 1, nanos |-> 5]), OK, None)).v
EntityTagLists ==
    {<<>>, <<Tag1>>, <<EntityTag_weak(Tag1.tag)>>, <<Tag2>>, <<Tag2, Tag1>>,
     <<Tag2, EntityTag_weak(Tag1.tag)>>}

\* Values of If-Match and If-None-Match, of If-Unmodified-Since and
\* If-Modified-Since, and of Range.
MatchHeaders ==
    {Absent, Invalid, [kind |-> "Any"]}
        \cup {[kind |-> "Items", items |-> l] : l \in EntityTagLists}
\* (A date read from a header has no sub-second part.)
DateHeaders ==
    {Absent, Invalid}
        \cup {[kind |-> "Date", secs |-> t, nanos |-> 0] : t \in {1, 2}}
RangeText(bytes_unit, specs) ==
    [kind |-> "Text", bytes_unit |-> bytes_unit, specs |-> specs]
RangeHeaders ==
    {Absent, [kind |-> "NonAscii"], RangeText(FALSE, <<>>),
     RangeText(TRUE, <<[kind |-> "bad"]>>),
     RangeText(TRUE, <<[kind |-> "fromto", a |-> 1, b |-> 0]>>),
     RangeText(TRUE, <<[kind |-> "fromto", a |-> 0, b |-> 0]>>),
     RangeText(TRUE, <<[kind |-> "fromto", a |-> 0, b |-> MaxFileLen]>>),
     RangeText(TRUE, <<[kind |-> "from", a |-> 0]>>),
     RangeText(TRUE, <<[kind |-> "from", a |-> 1]>>),
     RangeText(TRUE, <<[kind |-> "from", a |-> MaxFileLen]>>),
     RangeText(TRUE, <<[kind |-> "suffix", n |-> 1]>>),
     RangeText(TRUE, <<[kind |-> "fromto", a |-> 0, b |-> 0],
                       [kind |-> "from", a |-> 1]>>),
     RangeText(TRUE, <<[kind |-> "from", a |-> MaxFileLen],
                       [kind |-> "suffix", n |-> 1]>>),
     RangeText(TRUE, <<[kind |-> "from", a |-> MaxFileLen],
                       [kind |-> "fromto", a |-> MaxFileLen, b |-> MaxFileLen]>>)}

Present(h) == IF h.kind = "Absent" THEN 0 ELSE 1

\* The requests of the model: every combination of at most MaxHdrs of the
\* five headers, and the requests that carry If-Match with one tag,
\* If-None-Match: * and a Range header together.
HttpRequestsOfFile ==
    {r \in [method : {"GET", "HEAD", "POST"},
            if_match : MatchHeaders, if_none_match : MatchHeaders,
            if_unmodified_since : DateHeaders, if_modified_since : DateHeaders,
            range : RangeHeaders] :
        Present(r.if_match) + Present(r.if_none_match)
            + Present(r.if_unmodified_since) + Present(r.if_modified_since)
            + Present(r.range) <= MaxHdrs}
    \cup
    {[method |-> m, if_match |-> [kind |-> "Items", items |-> <<Tag2>>],
      if_none_match |-> [kind |-> "Any"], if_unmodified_since |-> Absent,
      if_modified_since |-> Absent, range |-> r] :
        m \in {"GET", "HEAD"},
        r \in {[kind |-> "NonAscii"], RangeText(FALSE, <<>>),
               RangeText(TRUE, <<[kind |-> "from", a |-> MaxFileLen]>>),
               RangeText(TRUE, <<[kind |-> "from", a |-> 0]>>)}}

FileIdle ==
    /\ named = NamedFile(1, None, OK, None)
    /\ fcfg = DefaultConfig
    /\ freq = [method |-> "GET", if_match |-> Absent, if_none_match |-> Absent,
               if_unmodified_since |-> Absent, if_modified_since |-> Absent,
               range |-> Absent]
    /\ resp = None
    /\ resp2 = None

InitH2 ==
    /\ BuildIdle
    /\ esvc = [extract |-> [kind |-> "Json"], config |-> None, service |-> "sync"]
    /\ PipeIdle
    /\ FileIdle
    /\ handler \in {H2ServiceHandler_new(cfg, "svc") : cfg \in ServiceConfigs}
    /\ state = [c \in Conns |-> NotCreated]
    /\ ret = [c \in Conns |-> NotPolled]
    /\ hist = [c \in Conns |-> NoHist]

\* The server accepts connection c and calls the handler service with it.
Call(c) ==
    /\ state[c] = NotCreated
    /\ \E peer_addr \in PeerAddrs :
          state' = [state EXCEPT ![c] = H2ServiceHandler_call(handler, peer_addr)]
    /\ UNCHANGED <<handler, ret, hist, pipevars, filevars, buildvars>>

\* Poll with the outcome kept in one place for all connections: a failure of
\* one connection future is seen by every unfinished one.
Poll_SharedFailure(c) ==
    /\ state[c] # NotCreated
    /\ ~Resolved(c)
    /\ hist[c].polls < MaxPolls
    /\ \E hres \in HandshakeOutcomes, dres \in DispatcherOutcomes :
        \E r \in {H2Poll(state[c], hres, dres)} :
          LET h == hist[c]
          IN  /\ r.hs = 0 => hres = NotReady
              /\ r.disp = 0 => dres = NotReady
              /\ state' = [state EXCEPT ![c] = r.state]
              /\ ret' = [d \in Conns |->
                    IF d = c \/ (r.ret.kind = "Err" /\ state[d] # NotCreated
                                                  /\ ~Resolved(d))
                    THEN r.ret ELSE ret[d]]
              /\ hist' = [hist EXCEPT ![c] =
                    [polls |-> h.polls + 1,
                     hsPolls |-> h.hsPolls + r.hs,
                     dispPolls |-> h.dispPolls + r.disp,
                     trans |-> h.trans + r.trans,
                     back |-> h.back +
                        (IF state[c].tag = "Incoming" /\ r.state.tag # "Incoming"
                         THEN 1 ELSE 0),
                     depth |-> r.depth,
                     hsErr |->
                        IF state[c].tag = "Handshake" /\ hres.kind = "Err"
                        THEN Some(hres.err) ELSE h.hsErr,
                     hsAfterFail |-> h.hsAfterFail +
                        (IF h.hsErr # None THEN r.hs ELSE 0),
                     panic |-> h.panic \/ r.panic]]
    /\ UNCHANGED <<handler, pipevars, filevars, buildvars>>

\* The executor polls connection future c once. The answers of futures the
\* poll does not consult are fixed to NotReady.
Poll(c) ==
    /\ state[c] # NotCreated
    /\ ~Resolved(c)
    /\ hist[c].polls < MaxPolls
    /\ \E hres \in HandshakeOutcomes, dres \in DispatcherOutcomes :
        \E r \in {H2Poll(state[c], hres, dres)} :
          LET h == hist[c]
          IN  /\ r.hs = 0 => hres = NotReady
              /\ r.disp = 0 => dres = NotReady
              /\ state' = [state EXCEPT ![c] = r.state]
              /\ ret' = [ret EXCEPT ![c] = r.ret]
              /\ hist' = [hist EXCEPT ![c] =
                    [polls |-> h.polls + 1,
                     hsPolls |-> h.hsPolls + r.hs,
                     dispPolls |-> h.dispPolls + r.disp,
                     trans |-> h.trans + r.trans,
                     back |-> h.back +
                        (IF state[c].tag = "Incoming" /\ r.state.tag # "Incoming"
                         THEN 1 ELSE 0),
                     depth |-> r.depth,
                     hsErr |->
                        IF state[c].tag = "Handshake" /\ hres.kind = "Err"
                        THEN Some(hres.err) ELSE h.hsErr,
                     hsAfterFail |-> h.hsAfterFail +
                        (IF h.hsErr # None THEN r.hs ELSE 0),
                     panic |-> h.panic \/ r.panic]]
    /\ UNCHANGED <<handler, pipevars, filevars, buildvars>>

NextH2 == \E c \in Conns : Call(c) \/ Poll(c)

SpecH2 == InitH2 /\ [][NextH2]_vars

\* The executor polls connection future c for as long as it is not resolved:
\* Poll without the bound on the number of polls, the counters stopping at
\* MaxPolls.
PollLive(c) ==
    /\ state[c] # NotCreated
    /\ ~Resolved(c)
    /\ \E hres \in HandshakeOutcomes, dres \in DispatcherOutcomes :
        \E r \in {H2Poll(state[c], hres, dres)} :
          LET h == hist[c]
              UpTo(n) == IF n > MaxPolls THEN MaxPolls ELSE n
          IN  /\ r.hs = 0 => hres = NotReady
              /\ r.disp = 0 => dres = NotReady
              /\ state' = [state EXCEPT ![c] = r.state]
              /\ ret' = [ret EXCEPT ![c] = r.ret]
              /\ hist' = [hist EXCEPT ![c] =
                    [polls |-> UpTo(h.polls + 1),
                     hsPolls |-> UpTo(h.hsPolls + r.hs),
                     dispPolls |-> UpTo(h.dispPolls + r.disp),
                     trans |-> UpTo(h.trans + r.trans),
                     back |-> UpTo(h.back +
                        (IF state[c].tag = "Incoming" /\ r.state.tag # "Incoming"
                         THEN 1 ELSE 0)),
                     depth |-> r.depth,
                     hsErr |->
                        IF state[c].tag = "Handshake" /\ hres.kind = "Err"
                        THEN Some(hres.err) ELSE h.hsErr,
                     hsAfterFail |-> UpTo(h.hsAfterFail +
                        (IF h.hsErr # None THEN r.hs ELSE 0)),
                     panic |-> h.panic \/ r.panic]]
    /\ UNCHANGED <<handler, pipevars, filevars, buildvars>>

\* One connection is followed to its end: the futures of different
\* connections do not act on each other.
NextH2Live == Call(1) \/ PollLive(1)

\* Fair polling: a connection future that is not resolved is polled again
\* (the task is woken when its input or output can make progress), and the
\* handshake and the dispatcher do not stay pending for ever: of the polls
\* made, one finds the handshake resolved, and a later one finds the
\* dispatcher complete or failed.
SpecH2Live ==
    /\ InitH2
    /\ [][NextH2Live]_vars
    /\ \A c \in Conns :
          /\ WF_vars(PollLive(c))
          /\ SF_vars(PollLive(c) /\ (state'[c].tag # state[c].tag
                                        \/ ret'[c].kind # "NotReady"))

(***************************************************************************)
(*            The extraction pipeline as a state machine                   *)
(***************************************************************************)

HttpRequests(id) ==
    {[id |-> id, content_type |-> ct, content_length |-> cl, route_data |-> None] :
        ct \in ContentTypes, cl \in ContentLengths}

PipeResolved == out.kind \in {"Ready", "Err", "Panic"}

InitPipe ==
    /\ BuildIdle
    /\ H2Idle
    /\ FileIdle
    /\ esvc \in ExtractServices
    /\ PipeIdle

\* The route calls the ExtractService with the next request of the
\* connection, once the previous one has been answered and its future
\* dropped.
ServiceCall ==
    /\ efut = NotCreated
    /\ nreq < MaxReqs
    /\ \E req \in HttpRequests(nreq + 1), payload \in Payloads :
          LET r == ServiceRequest_from_parts(req, payload)
          IN  /\ creq' = Some(r)
              /\ efut' = ExtractService_call(esvc, r)
    /\ out' = NotPolled
    /\ ph' = NoPh
    /\ nreq' = nreq + 1
    /\ UNCHANGED <<esvc, prevOverflow, h2vars, filevars, buildvars>>

\* Stream events (chunks, then the end of the stream) the extractor of efut
\* may still read.
EventsLeft ==
    IF efut.fut_s # None THEN 0
    ELSE IF efut.extract.kind # "Json" THEN 0
    ELSE IF efut.fut.jb.fut # None
    THEN (IF efut.fut.jb.fut.v.stream.tag = "Stream"
          THEN Len(efut.fut.jb.fut.v.stream.chunks) + 1 ELSE 0)
    ELSE IF efut.fut.jb.stream # None
    THEN (IF efut.fut.jb.stream.v.tag = "Stream"
          THEN Len(efut.fut.jb.stream.v.chunks) + 1 ELSE 0)
    ELSE 0

\* The executor polls the ExtractResponse once. The answers of futures the
\* poll does not consult are fixed to NotReady.
PollExtract ==
    /\ efut # NotCreated
    /\ ~PipeResolved
    /\ ph.polls < MaxPipePolls
    /\ \E k \in 0..EventsLeft, hres \in FutureOutcomes, rres \in FutureOutcomes :
        \E r \in {ExtractResponse_poll(efut, k, hres, rres)} :
          LET c == r.cnt
              hadFut2 == IF efut.fut_s # None THEN efut.fut_s.v.fut2 # None
                         ELSE FALSE
          IN  /\ c.h.hPolls = 0 => hres = NotReady
              /\ c.h.rPolls = 0 => rres = NotReady
              /\ efut' = r.er
              /\ out' = IF c.panic \/ c.h.panic THEN [kind |-> "Panic"] ELSE r.res
              /\ ph' = [polls |-> ph.polls + 1,
                        exPolls |-> ph.exPolls + c.exPolls,
                        exPollsAfterCall |-> ph.exPollsAfterCall +
                            (IF ph.svcCalls > 0 THEN c.exPolls ELSE 0),
                        svcCalls |-> ph.svcCalls + c.svcCalls,
                        callReq |-> IF c.callReq # None THEN c.callReq ELSE ph.callReq,
                        read |-> ph.read + c.read,
                        exErr |-> IF c.exErr # None THEN c.exErr ELSE ph.exErr,
                        exOk |-> ph.exOk \/ c.exOk,
                        hPolls |-> ph.hPolls + c.h.hPolls,
                        rPolls |-> ph.rPolls + c.h.rPolls,
                        respondTo |-> ph.respondTo + c.h.respondTo,
                        reqTaken |-> ph.reqTaken + c.h.reqTaken,
                        hPollsAfterFut2 |-> ph.hPollsAfterFut2 +
                            (IF hadFut2 THEN c.h.hPolls ELSE 0),
                        hErr |-> IF c.h.hErr # None THEN c.h.hErr ELSE ph.hErr,
                        panic |-> ph.panic \/ c.panic \/ c.h.panic]
    /\ UNCHANGED <<esvc, creq, nreq, prevOverflow, h2vars, filevars, buildvars>>

\* The resolved future is dropped; the service is free for the next request.
Drop ==
    /\ PipeResolved
    /\ creq' = None
    /\ efut' = NotCreated
    /\ out' = NotPolled
    /\ ph' = NoPh
    /\ prevOverflow' = (/\ out.kind = "Err"
                        /\ out.err[1].cause = "Overflow"
                        /\ ph.read = 0)
    /\ UNCHANGED <<esvc, nreq, h2vars, filevars, buildvars>>

NextPipe == ServiceCall \/ PollExtract \/ Drop

SpecPipe == InitPipe /\ [][NextPipe]_vars

(***************************************************************************)
(*            Extraction of Data and RouteData as a state machine          *)
(***************************************************************************)

\* A route whose handler takes Data<T> or RouteData<T>, or a pair of such
\* arguments: the extractor, the
\* data registered on the route, the handler service, and the data
\* registered on the application the route belongs to.
DataExtractors ==
    {[kind |-> k, type |-> T] : k \in {"Data", "RouteData"}, T \in DataTypes}
TupleExtractors ==
    {[kind |-> "Tuple", items |-> <<A, B>>] : A \in DataExtractors, B \in DataExtractors}
DataExtractServices ==
    {[extract |-> T, config |-> cfg, service |-> hk, app |-> app] :
        T \in DataExtractors \cup TupleExtractors,
        cfg \in {None} \cup {Some(e) : e \in AllExtensions},
        hk \in {"sync", "async"}, app \in AllExtensions}

\* The requests of the application: each carries the application's data.
DataRequests(id) ==
    {[id |-> id, content_type |-> None, content_length |-> None,
      route_data |-> None, app_data |-> esvc.app]}

InitData ==
    /\ BuildIdle
    /\ H2Idle
    /\ FileIdle
    /\ esvc \in DataExtractServices
    /\ PipeIdle

\* The route calls the ExtractService with the next request.
DataServiceCall ==
    /\ efut = NotCreated
    /\ nreq < MaxReqs
    /\ \E req \in DataRequests(nreq + 1),
          payload \in {PayloadNone, PayloadStream(<<1>>, "eof", TRUE)} :
          LET r == ServiceRequest_from_parts(req, payload)
          IN  /\ creq' = Some(r)
              /\ efut' = ExtractService_call(esvc, r)
    /\ out' = NotPolled
    /\ ph' = NoPh
    /\ nreq' = nreq + 1
    /\ UNCHANGED <<esvc, prevOverflow, h2vars, filevars, buildvars>>

NextData == DataServiceCall \/ PollExtract \/ Drop

SpecData == InitData /\ [][NextData]_vars

(***************************************************************************)
(*            The file responder as a state machine                        *)
(***************************************************************************)

InitFile ==
    /\ BuildIdle
    /\ H2Idle
    /\ esvc = [extract |-> [kind |-> "Json"], config |-> None, service |-> "sync"]
    /\ PipeIdle
    /\ named \in NamedFiles
    /\ fcfg \in StaticFileConfigs
    /\ freq \in HttpRequestsOfFile
    /\ resp = None
    /\ resp2 = None

\* The handler future converts the NamedFile into a response.
Respond ==
    /\ resp = None
    /\ resp' = Some(NamedFile_respond_to(named, fcfg, freq))
    /\ UNCHANGED <<named, fcfg, freq, resp2, h2vars, pipevars, buildvars>>

\* The same request arrives again while the file on disk is unchanged: the
\* handler opens the file anew, sets the status code, the content type, the
\* disposition and the encoding it set the first time, and its NamedFile
\* responds, streaming from the new handle; when the file cannot be opened
\* the handler returns the error and no NamedFile responds.
RespondAgain ==
    /\ resp # None
    /\ resp2 = None
    /\ \E fd \in {named.file, named.file + 1}, md \in {"Ok", "Err"} :
          LET opened == Reopen(named, fd, md)
              coded == IF named.status_code = OK THEN opened.v
                       ELSE NamedFile_set_status_code(opened.v, named.status_code)
              typed == IF named.content_type = opened.v.content_type THEN coded
                       ELSE NamedFile_set_content_type(coded, named.content_type)
              disposed ==
                  IF named.content_disposition = opened.v.content_disposition
                  THEN typed
                  ELSE NamedFile_set_content_disposition(
                           typed, named.content_disposition)
              again == IF named.encoding = None THEN disposed
                       ELSE NamedFile_set_content_encoding(disposed,
                                                           named.encoding.v)
          IN  resp2' = IF opened.kind = "Err" THEN Some(opened)
                       ELSE Some(NamedFile_respond_to(again, fcfg, freq))
    /\ UNCHANGED <<named, fcfg, freq, resp, h2vars, pipevars, buildvars>>

NextFile == Respond \/ RespondAgain

SpecFile == InitFile /\ [][NextFile]_vars

(***************************************************************************)
(*        Building a service and polling its readiness                     *)
(***************************************************************************)

InitService ==
    /\ BuildIdle
    /\ handler = NotCreated
    /\ state = [c \in Conns |-> NotCreated]
    /\ ret = [c \in Conns |-> NotPolled]
    /\ hist = [c \in Conns |-> NoHist]
    /\ esvc = [extract |-> [kind |-> "Json"], config |-> None, service |-> "sync"]
    /\ PipeIdle
    /\ FileIdle

\* One more call on the builder; bh is the log of the calls made.
SetKeepAlive ==
    /\ built = None
    /\ Len(bh) < MaxBuilderCalls
    /\ \E val \in {DefaultKeepAlive, 0, 75} :
          /\ builder' = HttpServiceBuilder_keep_alive(builder, val)
          /\ bh' = Append(bh, [f |-> "keep_alive", v |-> Some(val)])
    /\ UNCHANGED <<built, hfut, ready, h2vars, pipevars, filevars>>

SetClientTimeout ==
    /\ built = None
    /\ Len(bh) < MaxBuilderCalls
    /\ \E val \in {DefaultClientTimeout, 0} :
          /\ builder' = HttpServiceBuilder_client_timeout(builder, val)
          /\ bh' = Append(bh, [f |-> "client_timeout", v |-> Some(val)])
    /\ UNCHANGED <<built, hfut, ready, h2vars, pipevars, filevars>>

SetClientDisconnect ==
    /\ built = None
    /\ Len(bh) < MaxBuilderCalls
    /\ \E val \in {DefaultClientDisconnect, 3000} :
          /\ builder' = HttpServiceBuilder_client_disconnect(builder, val)
          /\ bh' = Append(bh, [f |-> "client_disconnect", v |-> Some(val)])
    /\ UNCHANGED <<built, hfut, ready, h2vars, pipevars, filevars>>

SetExpect ==
    /\ built = None
    /\ Len(bh) < MaxBuilderCalls
    /\ builder' = HttpServiceBuilder_expect(builder, "X1")
    /\ bh' = Append(bh, [f |-> "expect", v |-> Some("X1")])
    /\ UNCHANGED <<built, hfut, ready, h2vars, pipevars, filevars>>

SetUpgrade ==
    /\ built = None
    /\ Len(bh) < MaxBuilderCalls
    /\ builder' = HttpServiceBuilder_upgrade(builder, "U1")
    /\ bh' = Append(bh, [f |-> "upgrade", v |-> Some("U1")])
    /\ UNCHANGED <<built, hfut, ready, h2vars, pipevars, filevars>>

\* h1 / h2 / finish consume the builder: no call follows them.
BuildService ==
    /\ built = None
    /\ \E product \in {HttpServiceBuilder_h1(builder, "factory"),
                       HttpServiceBuilder_h2(builder, "factory"),
                       HttpServiceBuilder_finish(builder, "factory")} :
          built' = Some(product)
    /\ UNCHANGED <<builder, hfut, ready, bh, h2vars, pipevars, filevars>>

\* The server asks the HTTP/2 service for a handler: new_service returns
\* the future of it; no handler exists yet.
NewService ==
    /\ built # None
    /\ built.v.kind = "H2Service"
    /\ hfut = NotCreated
    /\ hfut' = [resp |-> H2Service_new_service(built.v), out |-> NotPolled]
    /\ UNCHANGED <<builder, built, ready, bh, h2vars, pipevars, filevars>>

\* The server polls that future until it resolves; fres is what the
\* factory's future answers: not ready, the service, or its InitError. The
\* handler exists from the poll that answers Ready.
PollNewService ==
    /\ hfut # NotCreated
    /\ hfut.out.kind \notin {"Ready", "Err", "Panic"}
    /\ \E fres \in {NotReady, Ready("svc"), Err("InitError")} :
          LET r == H2ServiceResponse_poll(hfut.resp, fres)
          IN  /\ hfut' = [resp |-> r.fut, out |-> r.res]
              /\ handler' = IF r.res.kind = "Ready" THEN r.res.v ELSE handler
    /\ UNCHANGED <<builder, built, ready, bh, state, ret, hist, pipevars, filevars>>

\* The server polls the readiness of the handler; sres is what the wrapped
\* service answers.
PollReady ==
    /\ handler # NotCreated
    /\ \E sres \in ServiceReadiness :
          ready' = [ready EXCEPT !.h2 =
                        [sres |-> sres,
                         res |-> H2ServiceHandler_poll_ready(handler, sres)]]
    /\ UNCHANGED <<builder, built, hfut, bh, h2vars, pipevars, filevars>>

\* The readiness of a service of the extraction pipeline is polled.
PollReadyPipeline ==
    /\ \E s \in PipelineServices, svc \in ExtractServices :
          ready' = [ready EXCEPT !.pipe[s] =
                        CASE s = "Handler" -> Handler_poll_ready
                          [] s = "AsyncHandler" -> AsyncHandler_poll_ready
                          [] s = "ExtractService" ->
                                ExtractService_poll_ready(svc)]
    /\ UNCHANGED <<builder, built, hfut, bh, h2vars, pipevars, filevars>>

NextService ==
    \/ SetKeepAlive \/ SetClientTimeout \/ SetClientDisconnect
    \/ SetExpect \/ SetUpgrade
    \/ BuildService
    \/ NewService \/ PollNewService \/ PollReady \/ PollReadyPipeline

SpecService == InitService /\ [][NextService]_vars

(***************************************************************************)
(*                 Properties of the connection future                     *)
(***************************************************************************)

\* C1: a connection future is always in exactly one of Handshake and
\* Incoming; it has moved from Handshake to Incoming once iff it is in
\* Incoming, never twice, and it never moves from Incoming back to Handshake.
C1_HandshakeThenIncomingOnce ==
    \A c \in Conns :
        /\ state[c].tag \in {"NotCreated", "Handshake", "Incoming"}
        /\ hist[c].trans = (IF state[c].tag = "Incoming" THEN 1 ELSE 0)
        /\ hist[c].back = 0

C1_Witness ==
    \E c \in Conns :
        state[c].tag = "Incoming" /\ hist[c].dispPolls >= 2 /\ hist[c].hsPolls >= 2

\* C2: the poll in which the handshake is ready builds the dispatcher from
\* the service clone, the negotiated connection and the configuration,
\* switches to Incoming and polls the dispatcher in that same poll: a future
\* in Incoming has had its dispatcher polled, and what the poll returned is
\* the dispatcher's answer.
C2_DispatcherPolledInSamePoll ==
    \A c \in Conns :
        state[c].tag = "Incoming" =>
            /\ hist[c].dispPolls >= 1
            /\ hist[c].polls = hist[c].hsPolls + hist[c].dispPolls - 1
            /\ ret[c] \in DispatcherOutcomes
            /\ \E pa \in PeerAddrs :
                  state[c].disp =
                      Dispatcher_new(handler.srv, "h2conn", handler.cfg, None, pa)
            /\ ~hist[c].panic

C2_Witness ==
    \E c \in Conns :
        /\ state[c].tag = "Incoming"
        /\ hist[c].polls = 1
        /\ hist[c].depth = 1
        /\ ret[c].kind = "NotReady"

\* C3: when the handshake poll fails, the poll returns that failure as a
\* DispatchError, no dispatcher is built, the handshake is not polled again
\* and the future never reaches Incoming.
C3_HandshakeFailureTerminal ==
    \A c \in Conns :
        hist[c].hsErr # None =>
            /\ ret[c] = [kind |-> "Err", err |-> DispatchErrorFromH2(hist[c].hsErr.v)]
            /\ state[c].tag = "Handshake"
            /\ hist[c].trans = 0
            /\ hist[c].dispPolls = 0
            /\ hist[c].hsAfterFail = 0

C3_Witness ==
    \E c \in Conns :
        hist[c].hsErr # None /\ hist[c].polls >= 2 /\ hist[c].polls < MaxPolls


(***************************************************************************)
(*                 Properties of the extraction pipeline                   *)
(***************************************************************************)

\* The request the handler service is to be called with: the request of the
\* call with the route's configuration attached.
RoutedReq == set_route_data(creq.v.req, esvc.config)

\* C4: if the extraction future fails, the handler service is never called
\* for that request (no call, no respond_to, no poll of a handler future),
\* and the poll reports the extraction error.
C4_NoHandlerCallOnExtractionFailure ==
    ph.exErr # None =>
        /\ ph.svcCalls = 0
        /\ ph.respondTo = 0
        /\ ph.hPolls = 0 /\ ph.rPolls = 0
        /\ efut.fut_s = None
        /\ out.kind = "Err" /\ out.err[1] = ph.exErr.v

C4_Witness ==
    /\ ph.exErr # None
    /\ ph.read >= 1
    /\ ph.polls >= 2

\* The body of the current request the extractor has not read.
UnconsumedBody ==
    SubSeq(creq.v.payload.chunks, ph.read + 1, Len(creq.v.payload.chunks))

\* The body available in a payload handle.
BodyOf(payload) == IF payload.tag = "Stream" THEN payload.chunks ELSE <<>>

\* C5 as stated: on an extraction failure the returned request is the
\* original one and holds all of the body the extractor did not consume.
C5_UnconsumedBodyReturned ==
    ph.exErr # None =>
        /\ out.kind = "Err"
        /\ out.err[2].req = RoutedReq
        /\ BodyOf(out.err[2].payload) = UnconsumedBody

\* C5 (amended): on an extraction failure ExtractResponse resolves to
\* (Error, ServiceRequest) with the request rebuilt from the original
\* HttpRequest and the payload handle as the extractor left it: the original
\* payload when the Json extractor failed its content-type check, and
\* Payload::None once JsonBody has taken the payload, whatever was read.
C5_RequestReturnedWithLeftPayload ==
    ph.exErr # None =>
        /\ out.kind = "Err"
        /\ out.err[1] = ph.exErr.v
        /\ out.err[2].req = RoutedReq
        /\ out.err[2].payload =
              (IF ph.exErr.v.cause = "ContentType" /\ ph.read = 0
               THEN creq.v.payload ELSE PayloadNone)

C5_Witness ==
    /\ ph.exErr # None
    /\ ph.exErr.v.cause = "Overflow"
    /\ ph.read = 0
    /\ Len(creq.v.payload.chunks) > 0
    /\ out.kind = "Err"
    /\ out.err[2].payload = PayloadNone

\* C6: the handler service is called at most once per request, exactly once
\* when the extraction succeeded, and the extraction future is not polled
\* after that call.
C6_HandlerCalledOnce ==
    /\ ph.svcCalls <= 1
    /\ ph.exOk <=> ph.svcCalls = 1
    /\ efut # NotCreated => (efut.fut_s # None <=> ph.svcCalls = 1)
    /\ ph.exPollsAfterCall = 0
    /\ out.kind = "Ready" => ph.svcCalls = 1

C6_Witness ==
    /\ ph.svcCalls = 1
    /\ ph.exPolls >= 2
    /\ ph.polls > ph.exPolls
    /\ out.kind = "Ready"

\* C7: a failure of the handler's future or of the responder's future never
\* surfaces as an error: the handler future resolves to a ServiceResponse
\* holding the response made from the error, and the only errors an
\* ExtractResponse reports are extraction errors.
C7_HandlerErrorsBecomeResponses ==
    /\ ph.hErr # None =>
          /\ out = Ready(ServiceResponse_new(RoutedReq, ResponseFromError(ph.hErr.v)))
          /\ ph.reqTaken = 1
    /\ out.kind = "Err" => ph.exErr # None /\ ph.svcCalls = 0
    /\ out.kind # "Panic"

C7_Witness ==
    /\ ph.hErr # None
    /\ esvc.service = "async"
    /\ ph.respondTo = 1
    /\ out.kind = "Ready"

\* The request the responder of the current call was converted against.
RespondReq ==
    IF efut.fut_s.v.kind = "sync" THEN Some(efut.fut_s.v.fut.respond_req)
    ELSE IF efut.fut_s.v.fut2 # None THEN Some(efut.fut_s.v.fut2.v.respond_req)
    ELSE None

\* C8: the responder is converted against the request given to the handler
\* call, and the ServiceResponse, success or converted error, carries that
\* same request.
C8_ResponseForOriginalRequest ==
    ph.svcCalls = 1 =>
        /\ ph.callReq = Some(RoutedReq)
        /\ RespondReq # None => RespondReq = Some(RoutedReq)
        /\ ph.respondTo = (IF RespondReq # None THEN 1 ELSE 0)
        /\ out.kind = "Ready" =>
              /\ out.v.request = RoutedReq
              /\ out.v.response.respond_req # None =>
                    out.v.response.respond_req = Some(RoutedReq.id)

C8_Witness ==
    /\ out.kind = "Ready"
    /\ out.v.response.status = 200
    /\ out.v.request.id = 2
    /\ out.v.request.route_data # None

(***************************************************************************)
(*                 Properties of the file responder                        *)
(***************************************************************************)

\* The validators of the file under its configuration.
ETagOf == IF is_use_etag(fcfg) THEN NamedFile_etag(named) ELSE None
LastModifiedOf ==
    IF is_use_last_modifier(fcfg) THEN NamedFile_last_modified(named) ELSE None
\* The Last-Modified header that reports it.
LastModifiedHeaderOf ==
    IF LastModifiedOf = None THEN None ELSE Some(LastModified(LastModifiedOf.v))

\* The request gets past the status-code override and the method check, so
\* the conditional headers are evaluated.
ReachesConditions ==
    named.status_code = OK /\ is_method_allowed(fcfg, freq.method)

\* The Range header does not end the response on its own (absent, or
\* satisfiable).
RangePasses ==
    \/ freq.range.kind = "Absent"
    \/ /\ freq.range.kind = "Text"
       /\ HttpRange_parse(freq.range, named.len).tag = "Ok"

\* The status of a response that the Range header ends: 400 for a value
\* that is not text, 416 for text the parser rejects.
FailedRangeStatus ==
    IF freq.range.kind = "NonAscii" THEN BAD_REQUEST ELSE RANGE_NOT_SATISFIABLE

StronglyMatches(item) ==
    ETagOf # None /\ ~item.weak /\ ~ETagOf.v.weak /\ item.tag = ETagOf.v.tag
WeaklyMatches(item) == ETagOf # None /\ item.tag = ETagOf.v.tag

IfMatchFails ==
    /\ freq.if_match.kind = "Items"
    /\ \A i \in 1..Len(freq.if_match.items) : ~StronglyMatches(freq.if_match.items[i])
IfUnmodifiedSinceFails ==
    /\ freq.if_unmodified_since.kind = "Date"
    /\ LastModifiedOf # None
    /\ ~HttpDate_le(LastModifiedOf.v, freq.if_unmodified_since)
PreconditionClaim == IfMatchFails \/ IfUnmodifiedSinceFails

\* C9 as stated: the responder answers 412 when If-Match lists entity tags
\* none of which strongly matches the file's ETag, or when
\* If-Unmodified-Since carries a date, a last-modified value exists and is
\* strictly later.
C9_FailedPreconditionIs412 ==
    resp # None /\ ReachesConditions /\ PreconditionClaim =>
        resp.v.status = PRECONDITION_FAILED

\* C9 (amended): the precondition fails exactly when If-Match lists entity
\* tags none of which strongly matches the file's ETag, or
\* If-Unmodified-Since carries a date, a last-modified value exists and is
\* strictly later; If-Match: * and an absent If-Match never fail it. A
\* request that fails it is answered 412 when its Range header is absent or
\* satisfiable, and 416 or 400 when its Range header fails; no other
\* request is answered 412. (The last-modified value is the one
\* last_modified returns, the modification time with its sub-second part.)
C9_PreconditionFailed ==
    resp # None =>
        /\ resp.v.status = PRECONDITION_FAILED => ReachesConditions /\ PreconditionClaim
        /\ ReachesConditions =>
              /\ resp.v.trace.v.precondition_failed <=> PreconditionClaim
              /\ RangePasses =>
                    (resp.v.status = PRECONDITION_FAILED <=> PreconditionClaim)
              /\ PreconditionClaim /\ ~RangePasses =>
                    resp.v.status = FailedRangeStatus
              /\ freq.if_match.kind \in {"Absent", "Any"}
                    /\ ~IfUnmodifiedSinceFails
                    => ~resp.v.trace.v.precondition_failed

C9_Witness ==
    /\ resp # None
    /\ resp.v.status = PRECONDITION_FAILED
    /\ freq.if_match.kind = "Any"
    /\ IfUnmodifiedSinceFails

NoneMatchTriggers ==
    \/ freq.if_none_match.kind = "Any"
    \/ /\ freq.if_none_match.kind = "Items"
       /\ \E i \in 1..Len(freq.if_none_match.items) :
             WeaklyMatches(freq.if_none_match.items[i])
ModifiedSinceTriggers ==
    /\ freq.if_none_match.kind = "Absent"
    /\ freq.if_modified_since.kind = "Date"
    /\ LastModifiedOf # None
    /\ HttpDate_le(LastModifiedOf.v, freq.if_modified_since)
NotModifiedClaim == NoneMatchTriggers \/ ModifiedSinceTriggers

\* C10: the not-modified decision is: If-None-Match: * always; otherwise a
\* weak match of one of the If-None-Match tags against the ETag;
\* If-Modified-Since only when no If-None-Match header is present at all,
\* and then iff a last-modified value exists and is not later than the date.
\* (The status is 304 for every such request that passed the precondition
\* and whose Range header does not end the response first; the only other
\* 304 is that of a file whose status code was set to 304. The
\* last-modified value is the one last_modified returns, the modification
\* time with its sub-second part.)
C10_NotModifiedDecision ==
    resp # None =>
        /\ resp.v.status = NOT_MODIFIED =>
              \/ named.status_code = NOT_MODIFIED
              \/ ReachesConditions /\ NotModifiedClaim
        /\ ReachesConditions =>
              /\ resp.v.trace.v.not_modified <=> NotModifiedClaim
              /\ RangePasses /\ ~resp.v.trace.v.precondition_failed =>
                    (resp.v.status = NOT_MODIFIED <=> NotModifiedClaim)

C10_Witness ==
    /\ resp # None
    /\ ReachesConditions
    /\ freq.if_none_match.kind = "Invalid"
    /\ freq.if_modified_since.kind = "Date"
    /\ LastModifiedOf # None
    /\ HttpDate_le(LastModifiedOf.v, freq.if_modified_since)
    /\ freq.range.kind = "Absent"
    /\ resp.v.status = OK

\* C11 as stated: every request that fails the precondition and satisfies
\* the not-modified condition is answered 412.
C11_FailedPreconditionNotModifiedIs412 ==
    resp # None /\ ReachesConditions /\ PreconditionClaim /\ NotModifiedClaim =>
        resp.v.status = PRECONDITION_FAILED

\* C11 (amended): the not-modified outcome is reached only if the
\* precondition passed: a 304 is never the responder's answer to a request
\* that fails the precondition (a file whose status code was set to 304
\* aside); a request that fails the precondition and satisfies the
\* not-modified condition is answered 412 when its Range header is absent or
\* satisfiable, and 416 or 400 when its Range header fails.
C11_PreconditionBeforeNotModified ==
    resp # None =>
        /\ resp.v.status = NOT_MODIFIED /\ named.status_code = OK => ~PreconditionClaim
        /\ ReachesConditions /\ PreconditionClaim /\ NotModifiedClaim =>
              /\ resp.v.status # NOT_MODIFIED
              /\ resp.v.status =
                    (IF RangePasses THEN PRECONDITION_FAILED ELSE FailedRangeStatus)

C11_Witness ==
    /\ resp # None
    /\ ReachesConditions
    /\ IfMatchFails
    /\ freq.if_none_match.kind = "Any"
    /\ resp.v.status = PRECONDITION_FAILED

\* The request carries none of the four conditional headers.
NoConditionalHeaders ==
    /\ freq.if_match.kind = "Absent"
    /\ freq.if_none_match.kind = "Absent"
    /\ freq.if_unmodified_since.kind = "Absent"
    /\ freq.if_modified_since.kind = "Absent"

\* The Range header names one valid range that lies within the file:
\* first-last with first <= last < length, first- with first < length, or a
\* suffix of 1..length bytes.
ValidSingleRange ==
    /\ freq.range.kind = "Text"
    /\ freq.range.bytes_unit
    /\ Len(freq.range.specs) = 1
    /\ LET sp == freq.range.specs[1]
       IN  CASE sp.kind = "fromto" -> sp.a <= sp.b /\ sp.b < named.len
             [] sp.kind = "from" -> sp.a < named.len
             [] sp.kind = "suffix" -> sp.n >= 1 /\ sp.n <= named.len
             [] OTHER -> FALSE

\* The window [s, s + l) that range names.
RangeStart ==
    LET sp == freq.range.specs[1]
    IN  IF sp.kind = "suffix" THEN named.len - sp.n ELSE sp.a
RangeLength ==
    LET sp == freq.range.specs[1]
    IN  CASE sp.kind = "fromto" -> sp.b - sp.a + 1
          [] sp.kind = "from" -> named.len - sp.a
          [] OTHER -> sp.n

\* C12: a GET with no conditional headers and a valid single range
\* [s, s + l) within the file is answered 206 with
\* Content-Range: bytes s-(s+l-1)/len and a body window of l bytes at offset
\* s, a range that covers the whole file included.
C12_ValidRangeIs206 ==
    resp # None /\ ReachesConditions /\ freq.method = "GET"
        /\ NoConditionalHeaders /\ ValidSingleRange =>
            /\ resp.v.status = PARTIAL_CONTENT
            /\ resp.v.headers.content_range =
                  Some(ContentRange(RangeStart, RangeStart + RangeLength - 1, named.len))
            /\ resp.v.body = ChunkedReadFile(named.file, RangeStart, RangeLength)

\* A range that starts at or beyond the end of the file.
OutOfBounds(sp) == sp.kind \in {"from", "fromto"} /\ sp.a >= named.len

\* The Range header is a well-formed list of byte ranges.
WellFormedRanges ==
    /\ freq.range.kind = "Text"
    /\ freq.range.bytes_unit
    /\ Len(freq.range.specs) >= 1
    /\ \A i \in 1..Len(freq.range.specs) :
          LET sp == freq.range.specs[i]
          IN  /\ sp.kind \in {"from", "fromto", "suffix"}
              /\ sp.kind = "fromto" => sp.a <= sp.b

AllOutOfBounds ==
    \A i \in 1..Len(freq.range.specs) : OutOfBounds(freq.range.specs[i])

\* The window of the first range of the header that is not out of bounds,
\* cut at the end of the file.
FirstInBounds ==
    freq.range.specs[CHOOSE i \in 1..Len(freq.range.specs) :
        /\ ~OutOfBounds(freq.range.specs[i])
        /\ \A j \in 1..(i - 1) : OutOfBounds(freq.range.specs[j])]
WindowStart(sp) == IF sp.kind = "suffix"
                   THEN (IF sp.n > named.len THEN 0 ELSE named.len - sp.n)
                   ELSE sp.a
WindowEnd(sp) == IF sp.kind = "fromto" /\ sp.b < named.len THEN sp.b
                 ELSE named.len - 1

Is416 ==
    /\ resp.v.status = RANGE_NOT_SATISFIABLE
    /\ resp.v.headers.content_range = Some(ContentRangeUnsatisfied(named.len))
    /\ resp.v.body = EmptyBody

\* C13 as stated: every out-of-bounds Range header and every multi-range
\* Range header is answered 416 with Content-Range: bytes */len and an empty
\* body.
C13_OutOfBoundsOrMultiIs416 ==
    resp # None /\ ReachesConditions /\ WellFormedRanges
        /\ (AllOutOfBounds \/ Len(freq.range.specs) >= 2) => Is416

\* C13 (amended): a Range header all of whose ranges are out of bounds,
\* one range or several, is answered 416 with Content-Range: bytes */len
\* and an empty body; a multi-range header with a range in bounds is not
\* rejected: its first range in bounds is the one the response reports.
C13_AllOutOfBoundsIs416 ==
    resp # None /\ ReachesConditions /\ WellFormedRanges =>
        IF AllOutOfBounds THEN Is416
        ELSE /\ resp.v.status # RANGE_NOT_SATISFIABLE
             /\ resp.v.headers.content_range =
                   Some(ContentRange(WindowStart(FirstInBounds),
                                     WindowEnd(FirstInBounds), named.len))

C13_Witness ==
    /\ resp # None
    /\ ReachesConditions
    /\ WellFormedRanges
    /\ Len(freq.range.specs) = 2
    /\ AllOutOfBounds
    /\ resp.v.status = RANGE_NOT_SATISFIABLE

\* The Range header is text that the parser rejects: not a well-formed list
\* of byte ranges, or one whose ranges are all out of bounds.
RejectedRangeText ==
    /\ freq.range.kind = "Text"
    /\ ~WellFormedRanges \/ AllOutOfBounds

\* The Range header is present and does not parse to a satisfiable range:
\* its value is not text, or it is text that the parser rejects.
UnsatisfiableRange ==
    freq.range.kind = "NonAscii" \/ RejectedRangeText

\* C14 as stated: a Range header that is present but does not parse to a
\* satisfiable range is answered 416 with Content-Range: bytes */total, and
\* never 412 or 304.
C14_UnsatisfiableRangeIs416 ==
    resp # None /\ ReachesConditions /\ UnsatisfiableRange =>
        /\ Is416
        /\ resp.v.status \notin {PRECONDITION_FAILED, NOT_MODIFIED}

\* C14 (amended): a Range header whose text the parser rejects is answered
\* 416 with Content-Range: bytes */total and an empty body, and a Range
\* header whose value is not text is answered 400 with an empty body and no
\* Content-Range, whatever the conditional headers are; no request whose
\* Range header fails is answered 412 or 304.
C14_RangeFailureBeforeConditions ==
    resp # None /\ ReachesConditions =>
        /\ RejectedRangeText => Is416
        /\ freq.range.kind = "NonAscii" =>
              /\ resp.v.status = BAD_REQUEST
              /\ resp.v.headers.content_range = None
              /\ resp.v.body = EmptyBody
        /\ UnsatisfiableRange =>
              resp.v.status \notin {PRECONDITION_FAILED, NOT_MODIFIED}

C14_Witness ==
    /\ resp # None
    /\ ReachesConditions
    /\ RejectedRangeText
    /\ PreconditionClaim
    /\ resp.v.trace.v.precondition_failed
    /\ resp.v.status = RANGE_NOT_SATISFIABLE

\* C15 as stated: a request whose If-Match holds only tags that do not
\* strongly match is answered 412 whatever its Range header is.
C15_IfMatchFailureBeforeRange ==
    resp # None /\ ReachesConditions /\ IfMatchFails =>
        resp.v.status = PRECONDITION_FAILED

\* C15 (amended): such a request is answered 412 whenever its Range header
\* is absent or satisfiable, and the range is then not served; a Range header
\* that fails is evaluated first and is answered 416, or 400 when its value
\* is not text.
C15_IfMatchFailureBeforeRangeServing ==
    resp # None /\ ReachesConditions /\ IfMatchFails =>
        /\ resp.v.status =
              (IF freq.range.kind = "NonAscii" THEN BAD_REQUEST
               ELSE IF UnsatisfiableRange THEN RANGE_NOT_SATISFIABLE
               ELSE PRECONDITION_FAILED)
        /\ resp.v.body = EmptyBody

C15_Witness ==
    /\ resp # None
    /\ ReachesConditions
    /\ IfMatchFails
    /\ ValidSingleRange
    /\ RangeLength < named.len
    /\ resp.v.status = PRECONDITION_FAILED

\* The If-None-Match header names an entity tag that matches the file's
\* current entity tag.
IfNoneMatchMatches ==
    /\ freq.if_none_match.kind = "Items"
    /\ \E i \in 1..Len(freq.if_none_match.items) :
          WeaklyMatches(freq.if_none_match.items[i])

\* C16 as stated: every request whose If-None-Match names an entity tag that
\* matches the file's current entity tag is answered 304 with no body.
C16_MatchingIfNoneMatchIsAlways304 ==
    resp # None /\ ReachesConditions /\ IfNoneMatchMatches =>
        /\ resp.v.status = NOT_MODIFIED
        /\ resp.v.body = EmptyBody

\* C16 (amended): a request whose If-None-Match names an entity tag that
\* matches the file's current entity tag is answered with no body, for GET
\* and for HEAD alike: 400 or 416 when its Range header fails, else 412
\* when it fails the precondition, else 304, and the 304 carries the file's
\* entity tag.
C16_MatchingIfNoneMatchIs304 ==
    resp # None /\ ReachesConditions /\ IfNoneMatchMatches =>
        /\ resp.v.trace.v.not_modified
        /\ resp.v.status =
              (IF ~RangePasses THEN FailedRangeStatus
               ELSE IF PreconditionClaim THEN PRECONDITION_FAILED
               ELSE NOT_MODIFIED)
        /\ resp.v.body = EmptyBody
        /\ resp.v.status = NOT_MODIFIED => resp.v.headers.etag = ETagOf

C16_Witness ==
    /\ resp # None
    /\ ReachesConditions
    /\ freq.method = "HEAD"
    /\ freq.if_none_match.kind = "Items"
    /\ Len(freq.if_none_match.items) = 2
    /\ freq.if_none_match.items[2].weak
    /\ WeaklyMatches(freq.if_none_match.items[2])
    /\ resp.v.status = NOT_MODIFIED

\* C17: when the status code of the file was overridden to anything other
\* than 200, the response bypasses the method check and all conditional and
\* range logic: whatever the method and the If-* and Range headers, it has
\* the overridden status, the base headers only, and streams the whole file
\* from offset 0 for its full length.
C17_StatusOverrideBypasses ==
    resp # None /\ named.status_code # OK =>
        /\ resp.v.status = named.status_code
        /\ resp.v.body = ChunkedReadFile(named.file, 0, named.len)
        /\ resp.v.headers =
              [NoHeaders EXCEPT !.content_type = Some(named.content_type),
                                !.content_disposition = Some(named.content_disposition),
                                !.content_encoding = named.encoding]

C17_Witness ==
    /\ resp # None
    /\ named.status_code # OK
    /\ freq.method = "POST"
    /\ ~is_method_allowed(fcfg, freq.method)
    /\ IfMatchFails
    /\ UnsatisfiableRange
    /\ resp.v.status = named.status_code

\* C18: a HEAD request is answered with the status and the headers of the
\* same request sent as GET, and with a zero-length body.
C18_HeadMirrorsGet ==
    resp # None /\ freq.method = "HEAD" =>
        LET get == NamedFile_respond_to(named, fcfg, [freq EXCEPT !.method = "GET"])
        IN  /\ resp.v.status = get.status
            /\ resp.v.headers = get.headers
            /\ resp.v.body = EmptyBody

\* C19: in every response the reported range and the body window stay
\* within the file: a Content-Range first-last/total has total = the file
\* length, first <= last < total, and Content-Length last - first + 1; a
\* streamed body starts at first and has that length (offset 0 and the file
\* length when no range is reported), so offset + size <= the file length.
C19_RangeWithinResource ==
    resp # None =>
        LET cr == resp.v.headers.content_range
            b == resp.v.body
        IN  /\ b.kind = "Stream" => b.offset + b.size <= named.len
            /\ cr = None /\ b.kind = "Stream" => b = ChunkedReadFile(named.file, 0, named.len)
            /\ cr # None /\ resp.v.status = RANGE_NOT_SATISFIABLE =>
                  cr.v = ContentRangeUnsatisfied(named.len)
            /\ cr # None /\ resp.v.status # RANGE_NOT_SATISFIABLE =>
                  /\ cr.v.unit = "bytes"
                  /\ cr.v.total = named.len
                  /\ 0 <= cr.v.first /\ cr.v.first <= cr.v.last
                  /\ cr.v.last < cr.v.total
                  /\ resp.v.headers.content_length =
                        Some(cr.v.last - cr.v.first + 1)
                  /\ b.kind = "Stream" =>
                        b = ChunkedReadFile(named.file, cr.v.first, cr.v.last - cr.v.first + 1)

C19_Witness ==
    /\ resp # None
    /\ resp.v.status = PARTIAL_CONTENT
    /\ resp.v.headers.content_range # None
    /\ resp.v.headers.content_range.v.first > 0
    /\ resp.v.headers.content_range.v.last = named.len - 1
    /\ resp.v.body = ChunkedReadFile(named.file, resp.v.headers.content_range.v.first,
                                     named.len - resp.v.headers.content_range.v.first)

\* The length respond_to computes: that of the first range in bounds when
\* the Range header is satisfiable, else that of the file.
ComputedLength ==
    IF freq.range.kind = "Text"
    THEN WindowEnd(FirstInBounds) - WindowStart(FirstInBounds) + 1
    ELSE named.len

\* C20 as stated: every response, whatever its status, carries
\* Accept-Ranges: bytes, Content-Length equal to the computed length,
\* Content-Type and Content-Disposition, plus Content-Encoding when an
\* encoding is configured.
C20_EveryResponseHasHeaders ==
    resp # None =>
        /\ resp.v.headers.accept_ranges = Some("bytes")
        /\ resp.v.headers.content_length # None
        /\ resp.v.headers.content_type # None
        /\ resp.v.headers.content_disposition # None
        /\ named.encoding # None => resp.v.headers.content_encoding = named.encoding

\* C20 (amended): a response that got past the status override, the method
\* check and the Range header (200, 206, 304, 412) carries all of these
\* headers, Content-Length being the computed length; a 400 or 416 response
\* carries them without Content-Length; a response with an overridden status
\* carries only Content-Type, Content-Disposition and the optional
\* Content-Encoding; a 405 response only Content-Type: text/plain and Allow.
C20_HeadersByOutcome ==
    resp # None =>
        LET h == resp.v.headers
            file_headers ==
                /\ h.content_type = Some(named.content_type)
                /\ h.content_disposition = Some(named.content_disposition)
                /\ h.content_encoding = named.encoding
        IN  IF named.status_code # OK
            THEN file_headers /\ h.accept_ranges = None /\ h.content_length = None
            ELSE IF ~is_method_allowed(fcfg, freq.method)
            THEN /\ resp.v.status = METHOD_NOT_ALLOWED
                 /\ h = [NoHeaders EXCEPT !.content_type = Some("text/plain"),
                                          !.allow = Some("GET, HEAD")]
            ELSE /\ file_headers
                 /\ h.accept_ranges = Some("bytes")
                 /\ IF RangePasses
                    THEN /\ resp.v.status \in {OK, PARTIAL_CONTENT, NOT_MODIFIED,
                                               PRECONDITION_FAILED}
                         /\ h.content_length = Some(ComputedLength)
                    ELSE /\ resp.v.status \in {BAD_REQUEST, RANGE_NOT_SATISFIABLE}
                         /\ h.content_length = None

C20_Witness ==
    /\ resp # None
    /\ ReachesConditions
    /\ named.encoding # None
    /\ ValidSingleRange
    /\ RangeLength < named.len
    /\ resp.v.status = PRECONDITION_FAILED
    /\ resp.v.headers.content_length = Some(RangeLength)
    /\ resp.v.headers.content_encoding = named.encoding

\* C21 as stated: every 304 and every 412 response carries the validators
\* of the file (ETag when the configuration uses entity tags and the file has
\* a modification time, Last-Modified likewise) and has no body.
C21_Every304And412HasValidators ==
    resp # None /\ resp.v.status \in {NOT_MODIFIED, PRECONDITION_FAILED} =>
        /\ resp.v.headers.etag = ETagOf
        /\ resp.v.headers.last_modified = LastModifiedHeaderOf
        /\ resp.v.body = EmptyBody

\* C21 (amended): every 304 and every 412 response of a file whose status
\* code was not set carries the validators of the file and has no body: the
\* ETag is present iff the configuration uses entity tags and the file has a
\* modification time, and is then the tag of the file; Last-Modified is
\* present iff the configuration uses it and the file has a modification
\* time, and is then that time in whole seconds. A file whose status code
\* was set to 304 is streamed whole, without validators.
C21_ConditionalOutcomesHaveValidators ==
    resp # None =>
        /\ named.status_code = OK
              /\ resp.v.status \in {NOT_MODIFIED, PRECONDITION_FAILED} =>
                /\ resp.v.headers.etag = ETagOf
                /\ resp.v.headers.etag # None <=>
                      is_use_etag(fcfg) /\ named.modified # None
                /\ resp.v.headers.last_modified = LastModifiedHeaderOf
                /\ resp.v.headers.last_modified # None <=>
                      is_use_last_modifier(fcfg) /\ named.modified # None
                /\ resp.v.body = EmptyBody
        /\ named.status_code = NOT_MODIFIED =>
                /\ resp.v.status = NOT_MODIFIED
                /\ resp.v.headers.etag = None
                /\ resp.v.headers.last_modified = None
                /\ resp.v.body = ChunkedReadFile(named.file, 0, named.len)

C21_Witness ==
    /\ resp # None
    /\ named.status_code = OK
    /\ resp.v.status = PRECONDITION_FAILED
    /\ resp.v.headers.etag # None
    /\ resp.v.headers.last_modified # None
    /\ resp.v.body = EmptyBody

SinceOwnLastModified ==
    /\ ReachesConditions
    /\ LastModifiedHeaderOf # None
    /\ freq.if_none_match.kind = "Absent"
    /\ freq.if_modified_since.kind = "Date"
    /\ freq.if_modified_since.secs = LastModifiedHeaderOf.v.secs

\* C23: a request with If-Modified-Since equal to the file's own
\* Last-Modified value and no If-None-Match is answered 304 with an empty
\* body, whatever the modification time of the file is, one with a
\* sub-second part included: the value compared is the modification time in
\* whole seconds, the one the Last-Modified header reports. (The precondition
\* passes and the Range header, if any, does not fail.)
C23_SinceOwnLastModifiedIs304 ==
    resp # None /\ SinceOwnLastModified =>
        /\ LastModifiedOf.v.secs = LastModifiedHeaderOf.v.secs
        /\ HttpDate_le(LastModifiedOf.v, freq.if_modified_since)
        /\ resp.v.trace.v.not_modified
        /\ ~PreconditionClaim /\ RangePasses =>
              /\ resp.v.status = NOT_MODIFIED
              /\ resp.v.body = EmptyBody
              /\ resp.v.headers.last_modified = LastModifiedHeaderOf

Is405 ==
    /\ resp.v.status = METHOD_NOT_ALLOWED
    /\ resp.v.headers.allow = Some("GET, HEAD")

\* C24 as stated: a request whose method the configuration does not allow
\* is answered 405 with Allow: GET, HEAD before any other outcome.
C24_MethodCheckIsFirst ==
    resp # None /\ ~is_method_allowed(fcfg, freq.method) => Is405

\* C24 (amended): for a file whose status code was not set, a request whose
\* method the configuration does not allow is answered 405 with
\* Allow: GET, HEAD whatever its conditional and Range headers are: no
\* validator, precondition, not-modified or range outcome is produced, and
\* no other request is answered 405. Only the test of the status code comes
\* earlier: a file whose status code was set is answered with that status
\* whatever the method.
C24_MethodCheckAfterStatusOverride ==
    resp # None =>
        /\ named.status_code = OK /\ ~is_method_allowed(fcfg, freq.method) =>
              /\ Is405
              /\ resp.v.headers.etag = None
              /\ resp.v.headers.last_modified = None
              /\ resp.v.headers.content_range = None
              /\ resp.v.trace = None
        /\ named.status_code # OK => resp.v.status = named.status_code
        /\ resp.v.status = METHOD_NOT_ALLOWED =>
              named.status_code = OK /\ ~is_method_allowed(fcfg, freq.method)

C24_Witness ==
    /\ resp # None
    /\ named.status_code = OK
    /\ freq.method = "POST"
    /\ ~is_method_allowed(fcfg, freq.method)
    /\ IfMatchFails
    /\ UnsatisfiableRange
    /\ Is405

\* The Range header is malformed: its value is not text, or it is text that
\* is not a well-formed list of byte ranges.
MalformedRange ==
    \/ freq.range.kind = "NonAscii"
    \/ freq.range.kind = "Text" /\ ~WellFormedRanges

\* C25 as stated: every malformed Range header is answered 416 with
\* Content-Range: bytes */total, and with no other status.
C25_MalformedRangeIs416 ==
    resp # None /\ ReachesConditions /\ MalformedRange => Is416

\* C25 (amended): a Range header whose value is text but not a well-formed
\* list of byte ranges is answered 416 with Content-Range: bytes */total and
\* an empty body, and with no other status; a Range header whose value is
\* not text is answered 400 with an empty body and no Content-Range.
C25_MalformedRangeIs416Or400 ==
    resp # None /\ ReachesConditions =>
        /\ freq.range.kind = "Text" /\ ~WellFormedRanges => Is416
        /\ freq.range.kind = "NonAscii" =>
              /\ resp.v.status = BAD_REQUEST
              /\ resp.v.headers.content_range = None
              /\ resp.v.body = EmptyBody
        /\ resp.v.status = BAD_REQUEST <=> freq.range.kind = "NonAscii"

C25_Witness ==
    /\ resp # None
    /\ ReachesConditions
    /\ freq.range.kind = "Text"
    /\ freq.range.bytes_unit
    /\ ~WellFormedRanges
    /\ NotModifiedClaim
    /\ Is416

\* The ranges the Range header parses to against the length of the file.
ParsedRanges == HttpRange_parse(freq.range, named.len).v

\* C26: when the Range header parses to several ranges, only the first
\* parsed range is honoured: Content-Range, Content-Length and the body
\* window are those of the first range, and the response is never a
\* multipart one (its Content-Type is that of the file, its body one window).
C26_OnlyFirstParsedRange ==
    resp # None /\ ReachesConditions /\ RangePasses
        /\ freq.range.kind = "Text" /\ Len(ParsedRanges) >= 2 =>
            LET first == ParsedRanges[1]
            IN  /\ resp.v.headers.content_range =
                      Some(ContentRange(first.start, first.start + first.length - 1,
                                        named.len))
                /\ resp.v.headers.content_length = Some(first.length)
                /\ resp.v.headers.content_type = Some(named.content_type)
                /\ resp.v.body \in {EmptyBody,
                                    ChunkedReadFile(named.file, first.start, first.length)}
                /\ freq.method = "GET" /\ ~PreconditionClaim /\ ~NotModifiedClaim =>
                      resp.v.body = ChunkedReadFile(named.file, first.start, first.length)

C26_Witness ==
    /\ resp # None
    /\ ReachesConditions
    /\ freq.range.kind = "Text"
    /\ RangePasses
    /\ Len(ParsedRanges) = 2
    /\ ParsedRanges[1] # ParsedRanges[2]
    /\ resp.v.status = PARTIAL_CONTENT
    /\ resp.v.body = ChunkedReadFile(named.file, ParsedRanges[1].start, ParsedRanges[1].length)

(***************************************************************************)
(*                 Properties of the Json extractor                        *)
(***************************************************************************)

\* The limit the Json extractor of the route works with, and the current
\* request's content type and declared length.
LimitOf == IF esvc.config = None THEN JsonDefaultLimit ELSE esvc.config.v.limit
IsJsonType ==
    creq.v.req.content_type \in {Some("application/json"), Some("application/hal+json")}
DeclaredLength ==
    IF creq.v.req.content_length # None
    THEN ParseUsize(creq.v.req.content_length.v) ELSE None

\* The current request is JSON and the Content-Length the extractor parsed
\* is above the limit.
DeclaredOverflow ==
    /\ creq # None
    /\ IsJsonType
    /\ DeclaredLength # None
    /\ DeclaredLength.v > LimitOf

\* The Content-Length of the current request is a decimal number (digits
\* only), of any size.
DeclaresNumber ==
    /\ creq.v.req.content_length # None
    /\ creq.v.req.content_length.v # <<>>
    /\ \A i \in 1..Len(creq.v.req.content_length.v) :
          creq.v.req.content_length.v[i]
              \in {"0", "1", "2", "3", "4", "5", "6", "7", "8", "9"}
\* That number is above the limit: a number that is not parsed is above
\* usize::MAX, hence above every limit.
NumberAboveLimit ==
    DeclaresNumber /\ (DeclaredLength = None \/ DeclaredLength.v > LimitOf)

\* C27 as stated: a Json extraction of a request that declares a
\* Content-Length greater than the limit, whatever number it declares, fails
\* with Overflow at its first poll, before any chunk is read and without
\* the handler service being called.
C27_NumberAboveLimitFailsEarly ==
    creq # None /\ IsJsonType /\ NumberAboveLimit /\ ph.exPolls >= 1 =>
        /\ out.kind = "Err"
        /\ out.err[1].cause = "Overflow"
        /\ ph.read = 0
        /\ ph.svcCalls = 0

\* C27, amended: a Json extraction of a request whose Content-Length the
\* extractor parses (an optional '+' and decimal digits, at most usize::MAX)
\* to a value greater than the configured limit fails with the Overflow
\* payload error at its first poll, before any chunk of the body is read
\* and without the handler service being called; the failure is the error
\* value of the future, returned together with the request (nothing
\* panics), the future can be dropped, and the service then takes the next
\* request of the connection. A Content-Length that is not parsed, a number
\* above usize::MAX included, counts as absent: the extraction then fails
\* with Overflow only after reading chunks of the body.
C27_DeclaredOverflowFailsEarly ==
    /\ creq # None /\ IsJsonType /\ DeclaredLength = None /\ ph.exPolls >= 1
          /\ out.kind = "Err" =>
              out.err[1].cause # "Overflow" \/ ph.read > 0
    /\ DeclaredOverflow /\ ph.exPolls >= 1 =>
          /\ out.kind = "Err"
          /\ out.err[1].cause = "Overflow"
          /\ out.err[2].req.id = creq.v.req.id
          /\ ph.exPolls = 1
          /\ ph.read = 0
          /\ ph.svcCalls = 0 /\ ph.hPolls = 0 /\ ph.rPolls = 0
          /\ ~ph.panic
          /\ ENABLED Drop
    /\ prevOverflow /\ efut = NotCreated /\ nreq < MaxReqs => ENABLED ServiceCall
    /\ prevOverflow /\ efut # NotCreated /\ ~DeclaredOverflow /\ IsJsonType
          /\ ph.exPolls >= 1 /\ out.kind = "Err" =>
              out.err[1].cause # "Overflow" \/ ph.read > 0

C27_Witness ==
    /\ prevOverflow
    /\ nreq = 2
    /\ creq # None
    /\ LimitOf = 10
    /\ DeclaredLength = Some(3)
    /\ out.kind = "Ready"
    /\ ph.svcCalls = 1
    /\ ph.read > 0

\* C28: the extraction of a request with no content type, or with a content
\* type whose subtype and suffix are both not json (one that does not parse
\* included), fails with the ContentType error at its first poll, whatever
\* length the request declares and whatever its body is: the length is not
\* compared, no chunk is read, the payload stays with the request and the
\* handler is not called. No request with a JSON content type fails with
\* ContentType.
C28_ContentTypeCheckedFirst ==
    creq # None /\ ph.exPolls >= 1 =>
        IF ~IsJsonType
        THEN /\ out.kind = "Err"
             /\ out.err[1].cause = "ContentType"
             /\ ph.exPolls = 1
             /\ ph.read = 0
             /\ ph.svcCalls = 0
             /\ out.err[2].payload = creq.v.payload
        ELSE out.kind = "Err" => out.err[1].cause # "ContentType"

C28_Witness ==
    /\ creq # None
    /\ creq.v.req.content_type = Some("text/plain")
    /\ DeclaredLength # None
    /\ DeclaredLength.v > LimitOf
    /\ creq.v.payload.chunks # <<>>
    /\ out.kind = "Err"
    /\ out.err[1].cause = "ContentType"

\* The payload error the body of the current request ends in, read chunk by
\* chunk against the limit: Overflow once the bytes read exceed the limit,
\* else Payload when the stream fails, else Deserialize when the bytes are
\* not valid JSON of the target type; None when the body parses.
RECURSIVE BodyError(_, _, _)
BodyError(chunks, sum, p) ==
    IF chunks = <<>>
    THEN (IF p.end = "err" THEN Some("Payload")
          ELSE IF p.valid THEN None ELSE Some("Deserialize"))
    ELSE IF sum + Head(chunks) > LimitOf THEN Some("Overflow")
    ELSE BodyError(Tail(chunks), sum + Head(chunks), p)

\* The payload error the extraction of the current request fails with.
PayloadErrorOf ==
    IF ~IsJsonType THEN Some("ContentType")
    ELSE IF DeclaredOverflow THEN Some("Overflow")
    ELSE BodyError(creq.v.payload.chunks, 0, creq.v.payload)

\* The error handler of the route's JsonConfig, if any.
ErrorHandlerOf == IF esvc.config = None THEN None ELSE esvc.config.v.ehandler

\* C29: when the JsonConfig of the route has an error handler, every failure
\* of the Json extraction is reported as the error the handler returns for
\* the payload error and the request; with no handler (or no JsonConfig) it
\* is the default conversion of the payload error. The extraction fails
\* exactly when the request's content type, declared length or body give a
\* payload error.
C29_ErrorHandlerChoosesError ==
    creq # None /\ out.kind \in {"Ready", "Err"} =>
        /\ out.kind = "Err" <=> PayloadErrorOf # None
        /\ out.kind = "Err" =>
              out.err[1] =
                  IF ErrorHandlerOf # None
                  THEN [from |-> ErrorHandlerOf.v, cause |-> PayloadErrorOf.v,
                        req |-> creq.v.req.id]
                  ELSE [from |-> "JsonPayloadError", cause |-> PayloadErrorOf.v]

C29_Witness ==
    /\ creq # None
    /\ ErrorHandlerOf = Some("custom")
    /\ out.kind = "Err"
    /\ out.err[1] = ErrorFromHandler("custom", "Deserialize", creq.v.req)
    /\ ph.read > 0
    /\ nreq = 2

(***************************************************************************)
(*                 Properties of Data and RouteData                        *)
(***************************************************************************)

\* A value of exactly the type the extractor asks for was registered: as
\* application data for Data<T>, as data of the route for RouteData<T>.
Registered ==
    IF esvc.extract.kind = "Data"
    THEN esvc.extract.type \in DOMAIN esvc.app
    ELSE esvc.config # None /\ esvc.extract.type \in DOMAIN esvc.config.v
RegisteredValue ==
    IF esvc.extract.kind = "Data"
    THEN esvc.app[esvc.extract.type]
    ELSE esvc.config.v[esvc.extract.type]

\* C30: the extraction of Data<T> (of RouteData<T>) succeeds iff a value of
\* exactly type T was registered as application data (as data of the
\* route): the handler service is then called once with that value.
\* Otherwise the extraction fails with an internal server error, the handler
\* service is not called, the error is returned with the request, and the
\* response made of the error has status 500.
C30_DataExtractedIffRegistered ==
    creq # None /\ esvc.extract.kind \in {"Data", "RouteData"} /\ ph.polls >= 1 =>
        /\ ph.exOk <=> Registered
        /\ out.kind = "Err" <=> ~Registered
        /\ Registered =>
              /\ ph.svcCalls = 1
              /\ efut.fut_s # None
              /\ efut.fut_s.v.param \in
                    {[Data |-> RegisteredValue, type |-> esvc.extract.type],
                     [RouteData |-> RegisteredValue, type |-> esvc.extract.type]}
        /\ ~Registered =>
              /\ out.err[1].status = INTERNAL_SERVER_ERROR
              /\ ResponseFromError(out.err[1]).status = INTERNAL_SERVER_ERROR
              /\ out.err[2] =
                    ServiceRequest_from_parts(
                        set_route_data(creq.v.req, esvc.config), creq.v.payload)
              /\ ph.svcCalls = 0 /\ ph.hPolls = 0 /\ ph.rPolls = 0
              /\ ph.exPolls = 1

C30_Witness ==
    /\ creq # None
    /\ esvc.extract = [kind |-> "RouteData", type |-> "usize"]
    /\ esvc.config # None
    /\ DOMAIN esvc.config.v = {"u32"}
    /\ "usize" \in DOMAIN esvc.app
    /\ out.kind = "Err"
    /\ out.err[1].status = INTERNAL_SERVER_ERROR
    /\ ph.svcCalls = 0

(***************************************************************************)
(*                 Properties of tuples of descriptors                     *)
(***************************************************************************)

\* Descriptor T of the route finds its value, the value it finds, and the
\* error it fails with otherwise.
RegisteredFor(T) ==
    IF T.kind = "Data"
    THEN T.type \in DOMAIN esvc.app
    ELSE esvc.config # None /\ T.type \in DOMAIN esvc.config.v
ItemOf(T) ==
    IF T.kind = "Data"
    THEN [Data |-> esvc.app[T.type], type |-> T.type]
    ELSE [RouteData |-> esvc.config.v[T.type], type |-> T.type]
FailureOf(T) ==
    IF T.kind = "Data"
    THEN ErrorInternalServerError(
             "App data is not configured, to configure use App::data()")
    ELSE ErrorInternalServerError(
             "Route data is not configured, to configure use Route::data()")

\* The position of the first descriptor of the tuple that fails, 0 if none.
FirstFailing ==
    LET Ts == esvc.extract.items
        bad == {i \in 1..Len(Ts) : ~RegisteredFor(Ts[i])}
    IN  IF bad = {} THEN 0 ELSE CHOOSE i \in bad : \A j \in bad : i <= j

\* C31: the descriptors of a handler run in declaration order and stop at
\* the first failure: the error reported is that of the first failing
\* descriptor, the descriptors after it are not run, and the handler service
\* is called, once and with the values in declaration order, only when every
\* descriptor resolved.
C31_DescriptorsInOrderShortCircuit ==
    creq # None /\ esvc.extract.kind = "Tuple" /\ ph.polls >= 1 =>
        LET Ts == esvc.extract.items
        IN  IF FirstFailing # 0
            THEN /\ out.kind = "Err"
                 /\ out.err[1] = FailureOf(Ts[FirstFailing])
                 /\ efut.fut.evaluated = FirstFailing
                 /\ Len(efut.fut.items) = FirstFailing - 1
                 /\ ph.svcCalls = 0 /\ ph.hPolls = 0 /\ ph.rPolls = 0
            ELSE /\ out.kind # "Err"
                 /\ efut.fut.evaluated = Len(Ts)
                 /\ ph.svcCalls = 1
                 /\ efut.fut_s.v.param =
                       [Tuple |-> [i \in 1..Len(Ts) |-> ItemOf(Ts[i])]]

C31_Witness ==
    /\ creq # None
    /\ esvc.extract.kind = "Tuple"
    /\ esvc.extract.items[1].kind = "Data"
    /\ esvc.extract.items[2].kind = "RouteData"
    /\ ~RegisteredFor(esvc.extract.items[1])
    /\ ~RegisteredFor(esvc.extract.items[2])
    /\ out.kind = "Err"
    /\ out.err[1] = FailureOf(esvc.extract.items[1])
    /\ efut.fut.evaluated = 1

(***************************************************************************)
(*              Independence of the connection futures                     *)
(***************************************************************************)

\* What the model holds of connection c.
ConnOf(c) == <<state[c], ret[c], hist[c]>>

\* The step from the current to the next state of connection c is a step of
\* c's own state machine: its creation from the handler, or one poll of it
\* with some answers of its own handshake and dispatcher.
OwnStep(c) ==
    \/ /\ state[c] = NotCreated
       /\ \E peer_addr \in PeerAddrs :
              state'[c] = H2ServiceHandler_call(handler, peer_addr)
       /\ ret'[c] = ret[c] /\ hist'[c] = hist[c]
    \/ /\ state[c] # NotCreated
       /\ ~Resolved(c)
       /\ \E hres \in HandshakeOutcomes, dres \in DispatcherOutcomes :
              /\ state'[c] = H2Poll(state[c], hres, dres).state
              /\ ret'[c] = H2Poll(state[c], hres, dres).ret
       /\ hist'[c].polls = hist[c].polls + 1

\* What a connection future holds of the handler: the service handle and a
\* copy of the configuration.
SharesOnlyHandle(c) ==
    /\ state[c].tag = "Handshake" =>
          /\ state[c].srv = Some(handler.srv)
          /\ state[c].config = Some(handler.cfg)
    /\ state[c].tag = "Incoming" =>
          /\ state[c].disp.service = handler.srv
          /\ state[c].disp.config = handler.cfg

\* C32: the connection futures of one handler are independent state
\* machines: every step changes one connection only, by a step of that
\* connection's own machine, and leaves the other connections and the handler
\* as they were, whatever the other connections did (pending, dispatching,
\* completed or failed); a connection holds of the handler only the service
\* handle and a copy of the configuration.
C32_ConnectionsIndependent ==
    /\ [](\A c \in Conns : SharesOnlyHandle(c))
    /\ [][/\ handler' = handler
          /\ \A c \in Conns :
                ConnOf(c)' # ConnOf(c) =>
                    /\ OwnStep(c)
                    /\ \A d \in Conns \ {c} : ConnOf(d)' = ConnOf(d)]_vars

\* One connection failed in its handshake, the other one then completed.
C32_Witness ==
    /\ ret[1].kind = "Err" /\ state[1].tag = "Handshake"
    /\ hist[1].hsErr # None
    /\ ret[2].kind = "Ready" /\ state[2].tag = "Incoming"
    /\ hist[2].hsErr = None
    /\ state[2].disp.service = handler.srv
    /\ state[1].srv = Some(handler.srv)

(***************************************************************************)
(*                    Properties of service readiness                      *)
(***************************************************************************)

\* C33: the services of the pipeline are ready whenever they are called:
\* Handler, AsyncHandler and ExtractService answer Ready to every
\* poll_ready, so the handler service ExtractResponse calls is ready at its
\* call; H2ServiceHandler answers Ready exactly when its wrapped service
\* does, NotReady exactly when it does, and turns a readiness error e into
\* DispatchError::Service(e).
C33_ReadyBeforeCall ==
    /\ \A s \in PipelineServices :
          ready.pipe[s] \in {NotPolled, [kind |-> "Ready", v |-> "()"]}
    /\ \A hkind \in {"sync", "async"} :
          Service_poll_ready(hkind) = [kind |-> "Ready", v |-> "()"]
    /\ ready.h2 # NotPolled =>
          /\ ready.h2.res.kind = ready.h2.sres.kind
          /\ ready.h2.sres.kind = "Err" =>
                ready.h2.res.err = DispatchErrorService(ready.h2.sres.err)

C33_Witness ==
    /\ \A s \in PipelineServices : ready.pipe[s] = [kind |-> "Ready", v |-> "()"]
    /\ ready.h2 # NotPolled
    /\ ready.h2.sres = [kind |-> "NotReady"]
    /\ ready.h2.res = [kind |-> "NotReady"]

(***************************************************************************)
(*                    Properties of the service builder                    *)
(***************************************************************************)

\* The value last given to setter f in the log of calls, None if f was
\* never called.
RECURSIVE LastSet(_, _)
LastSet(log, f) ==
    IF log = <<>> THEN None
    ELSE IF log[Len(log)].f = f THEN log[Len(log)].v
    ELSE LastSet(SubSeq(log, 1, Len(log) - 1), f)

LastOr(o, default) == IF o = None THEN default ELSE o.v

\* The configuration the calls made so far ask for.
AskedConfig ==
    [keep_alive |-> LastOr(LastSet(bh, "keep_alive"), DefaultKeepAlive),
     client_timeout |->
        LastOr(LastSet(bh, "client_timeout"), DefaultClientTimeout),
     client_disconnect |->
        LastOr(LastSet(bh, "client_disconnect"), DefaultClientDisconnect)]

\* C34: after any sequence of builder calls, each of keep-alive, client
\* timeout and client-disconnect timeout is the value last given to its
\* setter, or the default (5 s, 5000 ms, 0) if the setter was never called;
\* the calls of expect and upgrade change none of them and keep each other's
\* service; h1, h2 and finish put these values in the configuration of the
\* service they produce, and the handler created from it carries them.
C34_BuilderCarriesLastValues ==
    /\ builder.keep_alive = AskedConfig.keep_alive
    /\ builder.client_timeout = AskedConfig.client_timeout
    /\ builder.client_disconnect = AskedConfig.client_disconnect
    /\ builder.expect = LastOr(LastSet(bh, "expect"), "ExpectHandler")
    /\ builder.upgrade = LastSet(bh, "upgrade")
    /\ built # None =>
          /\ built.v.cfg = AskedConfig
          /\ built.v.kind \in {"H1Service", "HttpService"} =>
                /\ built.v.expect = LastOr(LastSet(bh, "expect"), "ExpectHandler")
                /\ built.v.upgrade = LastSet(bh, "upgrade")
    /\ hfut # NotCreated /\ hfut.resp.cfg # None =>
          hfut.resp.cfg.v = AskedConfig
    /\ handler # NotCreated =>
          /\ handler.cfg = AskedConfig
          /\ hfut.out = Ready(handler)
    /\ hfut # NotCreated /\ hfut.out.kind # "Ready" => handler = NotCreated

\* keep_alive, then upgrade, then expect, then h2: the handler has the
\* keep-alive that was set and the defaults of the two timeouts.
C34_Witness ==
    /\ Len(bh) = 3
    /\ bh[1].f = "keep_alive"
    /\ bh[1].v.v = 75
    /\ bh[2].f = "upgrade"
    /\ bh[3].f = "expect"
    /\ built # None
    /\ built.v.kind = "H2Service"
    /\ hfut # NotCreated
    /\ hfut.resp.cfg = None
    /\ handler # NotCreated
    /\ handler.srv = "svc"
    /\ handler.cfg = [keep_alive |-> 75, client_timeout |-> DefaultClientTimeout,
                      client_disconnect |-> DefaultClientDisconnect]

(***************************************************************************)
(*                    Properties of the Json limit                         *)
(***************************************************************************)

\* Some chunk of the body brings the bytes received so far above the limit.
RECURSIVE ChunkOverflows(_, _)
ChunkOverflows(chunks, sum) ==
    IF chunks = <<>> THEN FALSE
    ELSE IF sum + Head(chunks) > LimitOf THEN TRUE
    ELSE ChunkOverflows(Tail(chunks), sum + Head(chunks))

RECURSIVE SumOf(_)
SumOf(chunks) == IF chunks = <<>> THEN 0 ELSE Head(chunks) + SumOf(Tail(chunks))

\* The parsed Content-Length is above the limit, whatever the content type
\* is.
DeclaredAboveLimit == DeclaredLength # None /\ DeclaredLength.v > LimitOf

\* The extraction of the current request is over, and it failed with Overflow.
ExtractionOver == creq # None /\ (ph.exOk \/ out.kind = "Err")
FailedWithOverflow == out.kind = "Err" /\ out.err[1].cause = "Overflow"

\* The bytes the fold of the JsonBody has accumulated.
Accumulated ==
    IF efut # NotCreated /\ efut.fut.jb.fut # None
    THEN efut.fut.jb.fut.v.body ELSE 0

\* C35 as stated: whatever the request's content type is, the extraction
\* fails with Overflow iff the declared Content-Length exceeds the limit or
\* some chunk brings the received body above it.
C35_OverflowIffAboveLimit ==
    ExtractionOver =>
        (FailedWithOverflow <=>
            DeclaredAboveLimit \/ ChunkOverflows(creq.v.payload.chunks, 0))

\* C35, amended: the JsonBody works with the limit of the route's JsonConfig,
\* or 32768 without one, never with its own default 262144. For a request
\* whose content type is JSON, the extraction fails with Overflow iff the
\* Content-Length the extractor parsed (an optional '+' and decimal digits,
\* at most usize::MAX) exceeds the limit or some chunk brings the
\* received body above it; a request of another content type fails with
\* ContentType and never with Overflow. The accumulated buffer never holds
\* more than limit bytes, and a body of exactly limit bytes does not
\* overflow.
C35_JsonOverflowIffAboveLimit ==
    /\ efut # NotCreated =>
          /\ efut.fut.jb.limit = LimitOf
          /\ LimitOf = IF esvc.config = None THEN 32768 ELSE esvc.config.v.limit
          /\ Accumulated <= LimitOf
    /\ ExtractionOver =>
          /\ IsJsonType =>
                (FailedWithOverflow <=>
                    DeclaredAboveLimit \/ ChunkOverflows(creq.v.payload.chunks, 0))
          /\ ~IsJsonType => ~FailedWithOverflow
          /\ IsJsonType /\ ~DeclaredAboveLimit
                /\ SumOf(creq.v.payload.chunks) = LimitOf => ~FailedWithOverflow

\* A body of exactly limit bytes, in two chunks, was accepted and parsed.
C35_Witness ==
    /\ creq # None
    /\ IsJsonType
    /\ LimitOf = 3
    /\ DeclaredLength = Some(3)
    /\ Len(creq.v.payload.chunks) = 2
    /\ SumOf(creq.v.payload.chunks) = 3
    /\ ph.exOk
    /\ Accumulated = 3
    /\ ph.svcCalls = 1

(***************************************************************************)
(*              Properties of a file without an entity tag                 *)
(***************************************************************************)

\* C36 as stated: when the file has no entity tag, a request with an
\* If-Match list of tags is answered 412, one with an If-None-Match list is
\* never answered 304, If-Match: * does not fail the precondition by itself,
\* and one with If-None-Match: * is answered 304.
C36_NoEntityTagStatuses ==
    resp # None /\ ReachesConditions /\ ETagOf = None =>
        /\ freq.if_match.kind = "Items" => resp.v.status = PRECONDITION_FAILED
        /\ freq.if_none_match.kind = "Items" => resp.v.status # NOT_MODIFIED
        /\ freq.if_match.kind = "Any" /\ ~IfUnmodifiedSinceFails =>
              resp.v.status # PRECONDITION_FAILED
        /\ freq.if_none_match.kind = "Any" => resp.v.status = NOT_MODIFIED

\* C36 (amended): when the file has no entity tag (use_etag is off, or the
\* file has no modification time) and the conditional headers are
\* evaluated: an If-Match list of tags fails the precondition, and the
\* answer is 412 when the Range header is absent or satisfiable, 416 or 400
\* when it fails; an If-None-Match list never gives the not-modified
\* decision nor status 304; If-Match: * passes the If-Match check, the
\* precondition then failing only through If-Unmodified-Since;
\* If-None-Match: * gives the not-modified decision, and the answer is 416
\* or 400 when the Range header fails, else 412 when the precondition
\* failed, else 304.
C36_NoEntityTag ==
    resp # None /\ ReachesConditions /\ ETagOf = None =>
        /\ freq.if_match.kind = "Items" =>
              /\ resp.v.trace.v.precondition_failed
              /\ resp.v.status =
                    (IF RangePasses THEN PRECONDITION_FAILED ELSE FailedRangeStatus)
        /\ freq.if_none_match.kind = "Items" =>
              /\ ~resp.v.trace.v.not_modified
              /\ resp.v.status # NOT_MODIFIED
        /\ freq.if_match.kind = "Any" =>
              /\ resp.v.trace.v.precondition_failed <=> IfUnmodifiedSinceFails
              /\ ~IfUnmodifiedSinceFails => resp.v.status # PRECONDITION_FAILED
        /\ freq.if_none_match.kind = "Any" =>
              /\ resp.v.trace.v.not_modified
              /\ resp.v.status =
                    (IF ~RangePasses THEN FailedRangeStatus
                     ELSE IF PreconditionClaim THEN PRECONDITION_FAILED
                     ELSE NOT_MODIFIED)

\* ETag is switched off; the If-Match list holds the very tag the file would
\* have, and the answer is 412.
C36_Witness ==
    /\ resp # None
    /\ ReachesConditions
    /\ ~is_use_etag(fcfg)
    /\ named.modified # None
    /\ freq.if_match.kind = "Items"
    /\ freq.if_match.items = <<NamedFile_etag(named).v>>
    /\ resp.v.status = PRECONDITION_FAILED

(***************************************************************************)
(*                 Properties of the asynchronous handler                  *)
(***************************************************************************)

\* The future of an asynchronous handler exists for the current request.
AsyncCalled ==
    /\ efut # NotCreated
    /\ efut.fut_s # None
    /\ efut.fut_s.v.kind = "async"

\* The handler's own future failed: the handler future resolved without a
\* responder future.
HandlerFutureFailed ==
    /\ AsyncCalled
    /\ out.kind = "Ready"
    /\ efut.fut_s.v.fut2 = None

\* C37: for an asynchronous handler, whatever the polls are: respond_to is
\* invoked at most once, and exactly when the handler's future has resolved
\* successfully (the responder future then exists); when the handler's
\* future fails, respond_to is never invoked and the response is the one made
\* from the error; the handler's future is not polled once the responder
\* future exists; the stored request is taken once, at the poll that
\* resolves, and not before.
C37_AsyncHandlerOrder ==
    AsyncCalled =>
        /\ ph.respondTo <= 1
        /\ ph.respondTo = 1 <=> efut.fut_s.v.fut2 # None
        /\ ph.respondTo = 1 <=> efut.fut_s.v.fut = "done"
        /\ ph.respondTo = 1 => ph.hPolls >= 1
        /\ HandlerFutureFailed =>
              /\ ph.respondTo = 0
              /\ ph.rPolls = 0
              /\ ph.hErr # None
              /\ out.v.response = ResponseFromError(ph.hErr.v)
        /\ ph.hPollsAfterFut2 = 0
        /\ ph.reqTaken = (IF out.kind = "Ready" THEN 1 ELSE 0)
        /\ efut.fut_s.v.req = None <=> out.kind = "Ready"
        /\ ~ph.panic

\* The handler's future resolved at one poll, the responder's future at a
\* later one.
C37_Witness ==
    /\ AsyncCalled
    /\ out.kind = "Ready"
    /\ ph.respondTo = 1
    /\ ph.hPolls = 2
    /\ ph.rPolls = 2
    /\ ph.reqTaken = 1
    /\ ph.hErr = None

(***************************************************************************)
(*                 Properties of the pending handshake                     *)
(***************************************************************************)

\* A poll of connection c, in Handshake, in which the handshake neither
\* failed nor completed.
PendingPoll(c) ==
    /\ state[c].tag = "Handshake"
    /\ hist'[c].polls = hist[c].polls + 1
    /\ hist'[c].hsErr = hist[c].hsErr
    /\ hist'[c].trans = hist[c].trans

\* C38: a poll made while the handshake is pending returns NotReady, polls
\* the handshake only and leaves the state of the future as it was; every
\* reachable Handshake state holds the service clone and the configuration,
\* so that the two take().unwrap() of the transition never panic.
C38_PendingHandshakeKeepsState ==
    /\ [](\A c \in Conns :
            /\ state[c].tag = "Handshake" =>
                  /\ state[c].srv # None /\ state[c].config # None
                  /\ \A dres \in DispatcherOutcomes :
                        LET r == H2Poll(state[c], [kind |-> "NotReady"], dres)
                        IN  /\ r.state = state[c]
                            /\ r.ret = [kind |-> "NotReady"]
                            /\ r.disp = 0
            /\ ~hist[c].panic)
    /\ [][\A c \in Conns :
            PendingPoll(c) =>
                /\ state'[c] = state[c]
                /\ ret'[c] = [kind |-> "NotReady"]
                /\ hist'[c].hsPolls = hist[c].hsPolls + 1
                /\ hist'[c].dispPolls = hist[c].dispPolls]_vars

\* Two polls found the handshake pending; the third one made the transition
\* with the service and the configuration that were stored.
C38_Witness ==
    \E c \in Conns :
        /\ hist[c].polls = 3
        /\ hist[c].hsPolls = 3
        /\ hist[c].trans = 1
        /\ state[c].tag = "Incoming"
        /\ state[c].disp.service = handler.srv
        /\ state[c].disp.config = handler.cfg
        /\ ~hist[c].panic

(***************************************************************************)
(*                 Termination of the connection future                    *)
(***************************************************************************)

\* C39: every poll of the connection future ends after at most one call of
\* itself, made by the poll that moves from Handshake to Incoming; under fair
\* polling, with a handshake and a dispatcher that do not stay pending for
\* ever, every connection future resolves; one that reached Incoming resolves
\* with what its dispatcher reported, completion or error.
C39_PollTerminatesAndResolves ==
    /\ [](\A c \in Conns :
            /\ hist[c].depth <= 1
            /\ hist[c].depth = 1 => state[c].tag = "Incoming" /\ hist[c].trans = 1
            /\ Resolved(c) /\ state[c].tag = "Incoming" =>
                  ret[c] \in DispatcherOutcomes \ {NotReady})
    /\ \A c \in Conns : (state[c] # NotCreated) ~> Resolved(c)
    /\ \A c \in Conns :
          (state[c].tag = "Incoming") ~>
              (Resolved(c) /\ state[c].tag = "Incoming"
                  /\ ret[c] \in DispatcherOutcomes)

\* The handshake and then the dispatcher were found pending by more polls
\* than the counters count, and the future resolved with the dispatcher's
\* error.
C39_Witness ==
    \E c \in Conns :
        /\ hist[c].polls = MaxPolls
        /\ hist[c].hsPolls = MaxPolls
        /\ hist[c].dispPolls = MaxPolls
        /\ state[c].tag = "Incoming"
        /\ ret[c].kind = "Err"
        /\ ret[c] \in DispatcherOutcomes

=============================================================================
